---- MODULE Spec2Model ----
(***************************************************************************)
(* A model of the image transformation request lifecycle of Paperbag:      *)
(* the RateLimiter and SecurityAuditLogger classes (src/lib/security), the *)
(* withSecurity middleware and the secureCartoonifyImage mutation, and    *)
(* the other functions of convex/security.ts: the upload mutations,        *)
(* secureGetUserImages, getSecurityLogs and getRateLimitStatus.            *)
(*                                                                         *)
(* Time is Date.now() in milliseconds.  The record store, the scheduler    *)
(* and the identity provider are the platform's; the model keeps what the  *)
(* handler reads and writes of them.  A ctx.db.patch takes effect when it  *)
(* is called and stays when the handler later throws.  The optional        *)
(* arguments userAgent and ipAddress are never supplied, so they are       *)
(* undefined wherever logged.                                              *)
(*                                                                         *)
(* convex/security.ts names internal.image.ImageGen without importing      *)
(* internal.  Where the build leaves the name unbound, evaluating the      *)
(* argument throws inside the try around runAfter: that is one of the      *)
(* scheduler's failing answers here.                                       *)
(***************************************************************************)
EXTENDS Integers, Sequences, FiniteSets, TLC

VARIABLES
    now,                 \* Date.now()
    images,              \* the "images" table, in insertion order
    jobs,                \* what ctx.scheduler.runAfter has enqueued
    processingRequests,  \* processingRateLimiter.requests : identifier -> timestamps
    logs,                \* securityAuditLogger.logs
    calls,               \* history: the last two finished secureCartoonifyImage invocations
    nCalls,              \* how many invocations there have been
    rlCalls,             \* history: one entry per direct RateLimiter.isAllowed call
    rlQuery,             \* history: the last getRemainingRequests or getResetTime call
    appended,            \* history: every entry SecurityAuditLogger.log has pushed
    logQuery,            \* history: the last getLogs call
    retry,               \* the withRetry call in progress
    errorLog,            \* ErrorHandler.errorLog
    handled,             \* history: the last ErrorHandler.handleError call
    invocations,         \* the secureCartoonifyImage invocations in progress, step by step
    finished,            \* the scheduled jobs whose generation has completed
    uploadRequests,      \* uploadRateLimiter.requests : identifier -> timestamps
    generalRequests,     \* generalRateLimiter.requests : identifier -> timestamps
    uploads,             \* history: every upload mutation invoked, in order
    listed,              \* history: the last secureGetUserImages invocation
    paging,              \* history: the pages a client has loaded one after the other
    statusQuery,         \* history: the last getRateLimitStatus invocation
    reads                \* history: the last two getSecurityLogs invocations

vars == <<now, images, jobs, processingRequests, logs, calls, nCalls, rlCalls,
          rlQuery, appended, logQuery, retry, errorLog, handled, invocations, finished,
          uploadRequests, generalRequests, uploads, listed, paging, statusQuery, reads>>

\* the variables of the client-side utilities and of the step-by-step handler
limiterQueryVars == <<rlQuery>>
loggerVars == <<appended, logQuery>>
retryVars == <<retry>>
errorVars == <<errorLog, handled>>
stepVars == <<invocations, finished>>
\* the variables of the other functions of convex/security.ts
uploadVars == <<uploadRequests, uploads>>
galleryVars == <<generalRequests, listed, paging>>
statusVars == <<statusQuery>>
readVars == <<reads>>

---------------------------------------------------------------------------
(* Bounds of the model *)

MaxCalls == 4
MaxTicks == 1
TicksPerWindow == 1
MaxRlCalls == 5
MaxRlTicks == 3
RlTicksPerWindow == 2
MaxLogCalls == 3
MaxLogTicks == 1
MaxRetriesTried == 3
MaxHandled == 2
MaxInvocations == 2

(* Program constants *)

ProcessingWindowMs == 300000
ProcessingMaxRequests == 3
MaxLogs == 1000
MaxErrorLog == 100

TickMs == ProcessingWindowMs \div TicksPerWindow
RlTickMs == ProcessingWindowMs \div RlTicksPerWindow
LogTickMs == RlTickMs

(* JavaScript's null and undefined *)
Null == "<null>"
Undefined == "<undefined>"

Truthy(x) == x \notin {Null, Undefined, ""}

(* Callers, arguments and the scheduler's answers the model draws from *)
Users == {"u1", "u2"}
Identities == Users \cup {Null}
StorageIds == {"s1", "s3"}
Styles == {"anime", "pixar"}
SchedulerErrors == {"scheduler unavailable"}
SchedulerOutcomes == {"ok"} \cup SchedulerErrors
Identifiers == Users \cup {"anonymous"}

ImageStatus == {"pending", "processing", "completed", "failed", "error"}

(* The messages of the ConvexErrors thrown *)
AuthenticationRequired == "Authentication required"
RateLimited == "Rate limit exceeded. Please try again later."
InvalidStyle == "Invalid cartoon style"
RecordNotFound == "Image record not found"
Unauthorized == "Unauthorized access to image"
SchedulingFailed == "Failed to schedule image generation"

\* a history variable before the first call it records
NoCall == [op |-> "none"]

Returned(value) == [threw |-> FALSE, value |-> value]
Threw(message) == [threw |-> TRUE, error |-> message]

---------------------------------------------------------------------------
(* RateLimiter *)

\* this.requests.get(identifier) || []
RequestsOf(requests, identifier) ==
    IF identifier \in DOMAIN requests THEN requests[identifier] ELSE << >>

\* mutant: a request exactly windowMs old still counts
ValidRequestsInclusive(reqs, t, windowMs) ==
    SelectSeq(reqs, LAMBDA time : t - time <= windowMs)

\* requests.filter(time => now - time < this.windowMs)
ValidRequests(reqs, t, windowMs) ==
    SelectSeq(reqs, LAMBDA time : t - time < windowMs)

\* mutant: a rejected request is recorded too
IsAllowedRecordingRejected(requests, identifier, t, windowMs, maxRequests) ==
    LET validRequests == SelectSeq(RequestsOf(requests, identifier),
                                   LAMBDA time : t - time < windowMs)
    IN  [allowed |-> Len(validRequests) < maxRequests,
         requests |-> (identifier :> Append(validRequests, t)) @@ requests]

\* mutant: the limit is tested with > instead of >=
IsAllowedOffByOne(requests, identifier, t, windowMs, maxRequests) ==
    LET validRequests == SelectSeq(RequestsOf(requests, identifier),
                                   LAMBDA time : t - time < windowMs)
    IN  IF Len(validRequests) > maxRequests
        THEN [allowed |-> FALSE, requests |-> requests]
        ELSE [allowed |-> TRUE,
              requests |-> (identifier :> Append(validRequests, t)) @@ requests]

\* isAllowed: the answer and the map as it leaves it
IsAllowed(requests, identifier, t, windowMs, maxRequests) ==
    LET validRequests == ValidRequests(RequestsOf(requests, identifier), t, windowMs)
    IN  IF Len(validRequests) >= maxRequests
        THEN [allowed |-> FALSE, requests |-> requests]
        ELSE [allowed |-> TRUE,
              requests |-> (identifier :> Append(validRequests, t)) @@ requests]

Max(a, b) == IF a >= b THEN a ELSE b

SeqMin(s) == CHOOSE m \in {s[i] : i \in DOMAIN s} : \A i \in DOMAIN s : m <= s[i]

\* mutant: expired timestamps are counted too
GetRemainingRequestsCountingAll(requests, identifier, t, windowMs, maxRequests) ==
    Max(0, maxRequests - Len(RequestsOf(requests, identifier)))

GetRemainingRequests(requests, identifier, t, windowMs, maxRequests) ==
    Max(0, maxRequests - Len(ValidRequests(RequestsOf(requests, identifier), t, windowMs)))

\* mutant: the newest request is taken instead of the oldest
GetResetTimeNewest(requests, identifier, t, windowMs) ==
    LET validRequests == SelectSeq(RequestsOf(requests, identifier),
                                   LAMBDA time : t - time < windowMs)
    IN  IF Len(validRequests) = 0 THEN t
        ELSE validRequests[Len(validRequests)] + windowMs

GetResetTime(requests, identifier, t, windowMs) ==
    LET validRequests == ValidRequests(RequestsOf(requests, identifier), t, windowMs)
    IN  IF Len(validRequests) = 0 THEN t ELSE SeqMin(validRequests) + windowMs

---------------------------------------------------------------------------
(* SecurityAuditLogger *)

\* the entry log builds; timestamp is new Date()
LogEntry(t, level, event, details, userId, ip) ==
    [timestamp |-> t, level |-> level, event |-> event, details |-> details,
     userId |-> userId, ip |-> ip]

\* mutant: over the cap, the first 1000 entries are kept
LoggerLogKeepingOldest(entries, t, level, event, details, userId, ip) ==
    LET pushed == Append(entries, LogEntry(t, level, event, details, userId, ip))
    IN  IF Len(pushed) > MaxLogs THEN SubSeq(pushed, 1, MaxLogs) ELSE pushed

\* log(level, event, details, userId, ip): push, then slice(-1000) over the cap
LoggerLog(entries, t, level, event, details, userId, ip) ==
    LET pushed == Append(entries, LogEntry(t, level, event, details, userId, ip))
    IN  IF Len(pushed) > MaxLogs
        THEN SubSeq(pushed, Len(pushed) - MaxLogs + 1, Len(pushed))
        ELSE pushed

\* log(level, event, details): every caller in convex/security.ts passes three
\* arguments, so the entry's userId and ip are undefined
Log(entries, t, level, event, details) ==
    LoggerLog(entries, t, level, event, details, Undefined, Undefined)

\* an absent object-valued argument, and a Date
UndefinedObject == [kind |-> "undefined"]
DateOf(t) == [kind |-> "date", time |-> t]

\* mutant: since is exclusive
GetLogsSinceExclusive(entries, filter) ==
    IF filter = UndefinedObject THEN entries
    ELSE LET byLevel == IF Truthy(filter.level)
                        THEN SelectSeq(entries, LAMBDA log : log.level = filter.level)
                        ELSE entries
             byUser == IF Truthy(filter.userId)
                       THEN SelectSeq(byLevel, LAMBDA log : log.userId = filter.userId)
                       ELSE byLevel
         IN  IF filter.since # UndefinedObject
             THEN SelectSeq(byUser, LAMBDA log : log.timestamp > filter.since.time)
             ELSE byUser

\* getLogs(filter): filter is undefined or an object whose level, userId and
\* since are each a value or undefined.  level and userId are tested for
\* truthiness; since is a Date, an object, and truthy whenever given.
GetLogs(entries, filter) ==
    IF filter = UndefinedObject THEN entries
    ELSE LET byLevel == IF Truthy(filter.level)
                        THEN SelectSeq(entries, LAMBDA log : log.level = filter.level)
                        ELSE entries
             byUser == IF Truthy(filter.userId)
                       THEN SelectSeq(byLevel, LAMBDA log : log.userId = filter.userId)
                       ELSE byLevel
         IN  IF filter.since # UndefinedObject
             THEN SelectSeq(byUser, LAMBDA log : log.timestamp >= filter.since.time)
             ELSE byUser

---------------------------------------------------------------------------
(* The identity provider *)

\* JavaScript objects are records tagged with their kind.
\* ctx.auth.getUserIdentity(): a Promise of the caller's identity object, or of null
NullObject == [kind |-> "null"]
UserIdentity(caller) ==
    IF caller = Null THEN NullObject ELSE [kind |-> "identity", subject |-> caller]
GetUserIdentity(caller) == [kind |-> "promise", value |-> UserIdentity(caller)]
Await(p) == p.value

\* obj?.subject
SubjectOf(obj) == IF "subject" \in DOMAIN obj THEN obj.subject ELSE Undefined

---------------------------------------------------------------------------
(* The record store and the scheduler *)

\* ctx.db.query("images").filter(q => q.eq(q.field("originalStorageId"), storageId)).collect()
FindByStorageId(imgs, storageId) ==
    SelectSeq(imgs, LAMBDA image : image.originalStorageId = storageId)

\* ctx.db.patch(id, { status, updatedAt })
Patch(imgs, id, status, t) ==
    [k \in DOMAIN imgs |->
        IF imgs[k]._id = id
        THEN [imgs[k] EXCEPT !.status = status, !.updatedAt = t]
        ELSE imgs[k]]

\* the payload handed to ctx.scheduler.runAfter(0, internal.image.ImageGen, ...)
ImageGenJob(image, style) ==
    [imageUrl |-> image.originalImageUrl, userId |-> image.userId, style |-> style]

---------------------------------------------------------------------------
(* secureCartoonifyImage: the handler.  w is the world it runs in          *)
(* ([now, images, jobs, logs, requests]); sched is what runAfter will      *)
(* answer, "ok" or the message of the error it throws.  The result names   *)
(* the world left behind, the outcome, and the scheduler's answer when it  *)
(* was asked ("unused" otherwise).                                         *)

AllowedStyles ==
    {"simpsons", "studio-ghibli", "family-guy", "disney", "anime", "comic-book",
     "south-park"}

HandlerName == ""        \* handler.name of the arrow function given to withSecurity
ArgTypes == <<"object">> \* args.map(arg => typeof arg)

Out(w, outcome, asked) == [w |-> w, outcome |-> outcome, sched |-> asked]

\* mutants of the status gate
StatusGateNoProcessing(image) ==
    IF image.status = "completed" /\ Truthy(image.cartoonImageUrl) THEN "completed"
    ELSE "proceed"

StatusGateProcessingAsCompleted(image) ==
    IF image.status = "processing" THEN "completed"
    ELSE IF image.status = "completed" /\ Truthy(image.cartoonImageUrl) THEN "completed"
    ELSE "proceed"

StatusGateNoCompleted(image) ==
    IF image.status = "processing" THEN "processing" ELSE "proceed"

StatusGateIgnoringUrl(image) ==
    IF image.status = "processing" THEN "processing"
    ELSE IF image.status = "completed" THEN "completed"
    ELSE "proceed"

\* lines 209-216: "processing", "completed", or "proceed"
StatusGate(image) ==
    IF image.status = "processing" THEN "processing"
    ELSE IF image.status = "completed" /\ Truthy(image.cartoonImageUrl) THEN "completed"
    ELSE "proceed"

\* mutant: a record that already has a job gets no second one
ScheduleGenerationOncePerRecord(w, subject, image, style, sched) ==
    IF sched = "ok"
    THEN Out([w EXCEPT !.jobs =
                 IF \E j \in DOMAIN @ : @[j].imageUrl = image.originalImageUrl
                 THEN @ ELSE Append(@, ImageGenJob(image, style))],
             Returned([success |-> TRUE, status |-> "processing"]), sched)
    ELSE Out([w EXCEPT
                !.images = Patch(@, image._id, "pending", w.now),
                !.logs = Log(@, w.now, "error", "image_processing_scheduling_failed",
                             [userId |-> subject, imageId |-> image._id,
                              error |-> sched, timestamp |-> w.now])],
             Threw(SchedulingFailed), sched)

\* mutant: the catch does not put the status back
ScheduleGenerationNoRevert(w, subject, image, style, sched) ==
    IF sched = "ok"
    THEN Out([w EXCEPT !.jobs = Append(@, ImageGenJob(image, style))],
             Returned([success |-> TRUE, status |-> "processing"]), sched)
    ELSE Out([w EXCEPT
                !.logs = Log(@, w.now, "error", "image_processing_scheduling_failed",
                             [userId |-> subject, imageId |-> image._id,
                              error |-> sched, timestamp |-> w.now])],
             Threw(SchedulingFailed), sched)

\* lines 233-257: the try around runAfter and its catch
ScheduleGeneration(w, subject, image, style, sched) ==
    IF sched = "ok"
    THEN Out([w EXCEPT !.jobs = Append(@, ImageGenJob(image, style))],
             Returned([success |-> TRUE, status |-> "processing"]), sched)
    ELSE Out([w EXCEPT
                !.images = Patch(@, image._id, "pending", w.now),
                !.logs = Log(@, w.now, "error", "image_processing_scheduling_failed",
                             [userId |-> subject, imageId |-> image._id,
                              error |-> sched, timestamp |-> w.now])],
             Threw(SchedulingFailed), sched)

\* lines 218-231: the patch to processing and its audit entry
StartProcessing(w, subject, image, style) ==
    [w EXCEPT
        !.images = Patch(@, image._id, "processing", w.now),
        !.logs = Log(@, w.now, "info", "image_processing_started",
                     [userId |-> subject, imageId |-> image._id, style |-> style,
                      userAgent |-> Undefined, ipAddress |-> Undefined,
                      timestamp |-> w.now])]

\* mutant: no ownership check
ProcessImageNoOwnerCheck(w, subject, args, sched) ==
    LET found == FindByStorageId(w.images, args.storageId)
    IN  IF found = << >>
        THEN Out(w, Threw(RecordNotFound), "unused")
        ELSE IF StatusGate(found[1]) = "processing"
        THEN Out(w, Returned([success |-> TRUE, status |-> "processing"]), "unused")
        ELSE IF StatusGate(found[1]) = "completed"
        THEN Out(w, Returned([success |-> TRUE, status |-> "completed"]), "unused")
        ELSE ScheduleGeneration(StartProcessing(w, subject, found[1], args.style),
                                subject, found[1], args.style, sched)

\* lines 186-216: lookup, ownership, status gate
ProcessImage(w, subject, args, sched) ==
    LET found == FindByStorageId(w.images, args.storageId)
    IN  IF found = << >>
        THEN Out(w, Threw(RecordNotFound), "unused")
        ELSE LET image == found[1]
             IN  IF image.userId # subject
                 THEN Out([w EXCEPT !.logs =
                              Log(@, w.now, "warning", "unauthorized_image_access",
                                  [userId |-> subject, imageId |-> image._id,
                                   imageOwner |-> image.userId,
                                   userAgent |-> Undefined, ipAddress |-> Undefined])],
                          Threw(Unauthorized), "unused")
                 ELSE IF StatusGate(image) = "processing"
                 THEN Out(w, Returned([success |-> TRUE, status |-> "processing"]), "unused")
                 ELSE IF StatusGate(image) = "completed"
                 THEN Out(w, Returned([success |-> TRUE, status |-> "completed"]), "unused")
                 ELSE ScheduleGeneration(StartProcessing(w, subject, image, args.style),
                                         subject, image, args.style, sched)

\* mutant: the record is looked up before the style is validated
CartoonifyHandlerLookupFirst(w, caller, args, sched) ==
    LET identity == Await(GetUserIdentity(caller))
        found == FindByStorageId(w.images, args.storageId)
    IN  IF identity = NullObject
        THEN Out(w, Threw(AuthenticationRequired), "unused")
        ELSE IF found = << >>
        THEN Out(w, Threw(RecordNotFound), "unused")
        ELSE IF args.style \notin AllowedStyles
        THEN Out([w EXCEPT !.logs =
                     Log(@, w.now, "warning", "invalid_style_parameter",
                         [userId |-> identity.subject, style |-> args.style,
                          userAgent |-> Undefined, ipAddress |-> Undefined])],
                 Threw(InvalidStyle), "unused")
        ELSE ProcessImage(w, identity.subject, args, sched)

\* lines 168-184: identity and style, then the rest
CartoonifyHandler(w, caller, args, sched) ==
    LET identity == Await(GetUserIdentity(caller))
    IN  IF identity = NullObject
        THEN Out(w, Threw(AuthenticationRequired), "unused")
        ELSE IF args.style \notin AllowedStyles
        THEN Out([w EXCEPT !.logs =
                     Log(@, w.now, "warning", "invalid_style_parameter",
                         [userId |-> identity.subject, style |-> args.style,
                          userAgent |-> Undefined, ipAddress |-> Undefined])],
                 Threw(InvalidStyle), "unused")
        ELSE ProcessImage(w, identity.subject, args, sched)

---------------------------------------------------------------------------
(* withSecurity, with rateLimiter: processingRateLimiter and               *)
(* auditEvent: 'image_processing_request'                                  *)

\* line 38: ctx.auth?.getUserIdentity?.()?.subject || 'anonymous'
\* (the Promise is not awaited: the property is read off the Promise)
RateLimitIdentifier(caller) ==
    LET subject == SubjectOf(GetUserIdentity(caller))
    IN  IF Truthy(subject) THEN subject ELSE "anonymous"

\* lines 60-71: the handler's error is logged and thrown again
RunHandler(w, caller, args, sched) ==
    LET h == CartoonifyHandler(w, caller, args, sched)
    IN  IF h.outcome.threw
        THEN Out([h.w EXCEPT !.logs =
                     Log(@, w.now, "error", "function_execution_error",
                         [function |-> HandlerName, error |-> h.outcome.error,
                          userId |-> SubjectOf(Await(GetUserIdentity(caller))),
                          args |-> ArgTypes])],
                 h.outcome, h.sched)
        ELSE h

\* mutant: an invocation whose handler throws is not counted
RateLimitAndAuditCountingSuccesses(w, caller, args, sched) ==
    LET identifier == RateLimitIdentifier(caller)
        gate == IsAllowed(w.requests, identifier, w.now,
                          ProcessingWindowMs, ProcessingMaxRequests)
        h == RunHandler(
                 [w EXCEPT
                     !.requests = gate.requests,
                     !.logs = Log(@, w.now, "info", "image_processing_request",
                                  [function |-> HandlerName,
                                   userId |-> SubjectOf(Await(GetUserIdentity(caller))),
                                   timestamp |-> w.now])],
                 caller, args, sched)
    IN  IF ~gate.allowed
        THEN Out([w EXCEPT
                     !.requests = gate.requests,
                     !.logs =
                         Log(@, w.now, "warning", "rate_limit_exceeded",
                             [function |-> HandlerName, identifier |-> identifier,
                              remainingRequests |->
                                  GetRemainingRequests(gate.requests, identifier, w.now,
                                      ProcessingWindowMs, ProcessingMaxRequests),
                              resetTime |->
                                  GetResetTime(gate.requests, identifier, w.now,
                                               ProcessingWindowMs)])],
                 Threw(RateLimited), "unused")
        ELSE IF h.outcome.threw
        THEN Out([h.w EXCEPT !.requests = w.requests], h.outcome, h.sched)
        ELSE h

\* lines 36-58: rate limiting and the audit entry
RateLimitAndAudit(w, caller, args, sched) ==
    LET identifier == RateLimitIdentifier(caller)
        gate == IsAllowed(w.requests, identifier, w.now,
                          ProcessingWindowMs, ProcessingMaxRequests)
    IN  IF ~gate.allowed
        THEN Out([w EXCEPT
                     !.requests = gate.requests,
                     !.logs =
                         Log(@, w.now, "warning", "rate_limit_exceeded",
                             [function |-> HandlerName, identifier |-> identifier,
                              remainingRequests |->
                                  GetRemainingRequests(gate.requests, identifier, w.now,
                                      ProcessingWindowMs, ProcessingMaxRequests),
                              resetTime |->
                                  GetResetTime(gate.requests, identifier, w.now,
                                               ProcessingWindowMs)])],
                 Threw(RateLimited), "unused")
        ELSE RunHandler(
                 [w EXCEPT
                     !.requests = gate.requests,
                     !.logs = Log(@, w.now, "info", "image_processing_request",
                                  [function |-> HandlerName,
                                   userId |-> SubjectOf(Await(GetUserIdentity(caller))),
                                   timestamp |-> w.now])],
                 caller, args, sched)

\* lines 21-34: authentication, then the rest
WithSecurity(w, caller, args, sched) ==
    IF Await(GetUserIdentity(caller)) = NullObject
    THEN Out([w EXCEPT !.logs =
                 Log(@, w.now, "warning", "unauthorized_access_attempt",
                     [function |-> HandlerName, args |-> ArgTypes])],
             Threw(AuthenticationRequired), "unused")
    ELSE RateLimitAndAudit(w, caller, args, sched)

---------------------------------------------------------------------------
(* The state machine *)

World ==
    [now |-> now, images |-> images, jobs |-> jobs, logs |-> logs,
     requests |-> processingRequests]

\* An uploaded image as secureSaveUploadedImage inserts it, in any status the
\* generation's completion may have left it in; the derived URL comes with
\* status completed only.
InitialImages ==
    { << [_id |-> "img1", userId |-> "u1", originalStorageId |-> "s1",
          originalImageUrl |-> "url:s1", cartoonImageUrl |-> url,
          status |-> status, createdAt |-> 0, updatedAt |-> 0] >> :
        <<status, url>> \in
            (ImageStatus \X {Undefined}) \cup ({"completed"} \X {"", "cartoon:s1"}) }

\* nothing else has been called yet
Untouched ==
    /\ rlQuery = NoCall
    /\ appended = << >>
    /\ logQuery = NoCall
    /\ retry = NoCall
    /\ errorLog = << >>
    /\ handled = NoCall
    /\ invocations = << >>
    /\ finished = {}
    /\ uploadRequests = << >>
    /\ generalRequests = << >>
    /\ uploads = << >>
    /\ listed = << >>
    /\ paging = NoCall
    /\ statusQuery = NoCall
    /\ reads = << >>

Init ==
    /\ now = 0
    /\ images \in InitialImages
    /\ jobs = << >>
    /\ processingRequests = << >>
    /\ logs = << >>
    /\ calls = << >>
    /\ nCalls = 0
    /\ rlCalls = << >>
    /\ Untouched

\* the history keeps the last two entries
LastTwo(history, entry) ==
    IF Len(history) < 2 THEN Append(history, entry) ELSE <<history[2], entry>>

\* one invocation of the mutation secureCartoonifyImage, from call to answer
secureCartoonifyImage(caller, storageId, style, sched) ==
    /\ nCalls < MaxCalls
    /\ LET r == WithSecurity(World, caller, [storageId |-> storageId, style |-> style],
                             sched)
       IN  /\ sched = "ok" \/ r.sched = sched
           /\ images' = r.w.images
           /\ jobs' = r.w.jobs
           /\ logs' = r.w.logs
           /\ processingRequests' = r.w.requests
           /\ nCalls' = nCalls + 1
           /\ calls' = LastTwo(calls,
                  [caller |-> caller, storageId |-> storageId, style |-> style,
                   sched |-> r.sched, outcome |-> r.outcome,
                   pre |-> World, post |-> r.w])
    /\ UNCHANGED <<now, rlCalls, limiterQueryVars, loggerVars, retryVars, errorVars, stepVars,
                   uploadVars, galleryVars, statusVars, readVars>>

\* time passes
Tick ==
    /\ now < MaxTicks * TickMs
    /\ now' = now + TickMs
    /\ UNCHANGED <<images, jobs, processingRequests, logs, calls, nCalls, rlCalls,
                   limiterQueryVars, loggerVars, retryVars, errorVars, stepVars,
                   uploadVars, galleryVars, statusVars, readVars>>

Next ==
    \/ \E caller \in Identities, storageId \in StorageIds, style \in Styles,
          sched \in SchedulerOutcomes :
           secureCartoonifyImage(caller, storageId, style, sched)
    \/ Tick

Spec == Init /\ [][Next]_vars

---------------------------------------------------------------------------
(* The RateLimiter on its own: isAllowed called with any identifier *)

isAllowed(identifier) ==
    /\ Len(rlCalls) < MaxRlCalls
    /\ LET r == IsAllowed(processingRequests, identifier, now,
                          ProcessingWindowMs, ProcessingMaxRequests)
       IN  /\ processingRequests' = r.requests
           /\ rlCalls' = Append(rlCalls,
                  [identifier |-> identifier, time |-> now, allowed |-> r.allowed])
    /\ UNCHANGED <<now, images, jobs, logs, calls, nCalls,
                   limiterQueryVars, loggerVars, retryVars, errorVars, stepVars,
                   uploadVars, galleryVars, statusVars, readVars>>

LimiterTick ==
    /\ now < MaxRlTicks * RlTickMs
    /\ now' = now + RlTickMs
    /\ UNCHANGED <<images, jobs, processingRequests, logs, calls, nCalls, rlCalls,
                   limiterQueryVars, loggerVars, retryVars, errorVars, stepVars,
                   uploadVars, galleryVars, statusVars, readVars>>

NextLimiter ==
    \/ \E identifier \in Identifiers : isAllowed(identifier)
    \/ LimiterTick

InitLimiter == Init /\ images[1].status = "pending"

SpecLimiter == InitLimiter /\ [][NextLimiter]_vars

---------------------------------------------------------------------------
(* The RateLimiter with its two queries.  rlQuery keeps the last query:    *)
(* its identifier, the time, how many isAllowed calls came before it (at), *)
(* its answer, and the limiter's map before and after it.                  *)

getRemainingRequests(identifier) ==
    /\ UNCHANGED <<now, images, jobs, processingRequests, logs, calls, nCalls, rlCalls,
                   loggerVars, retryVars, errorVars, stepVars,
                   uploadVars, galleryVars, statusVars, readVars>>
    /\ rlQuery' = [op |-> "getRemainingRequests", identifier |-> identifier,
                   time |-> now, at |-> Len(rlCalls),
                   result |-> GetRemainingRequests(processingRequests, identifier, now,
                                  ProcessingWindowMs, ProcessingMaxRequests),
                   before |-> processingRequests, after |-> processingRequests']

getResetTime(identifier) ==
    /\ UNCHANGED <<now, images, jobs, processingRequests, logs, calls, nCalls, rlCalls,
                   loggerVars, retryVars, errorVars, stepVars,
                   uploadVars, galleryVars, statusVars, readVars>>
    /\ rlQuery' = [op |-> "getResetTime", identifier |-> identifier,
                   time |-> now, at |-> Len(rlCalls),
                   result |-> GetResetTime(processingRequests, identifier, now,
                                           ProcessingWindowMs),
                   before |-> processingRequests, after |-> processingRequests']

NextLimiterQueries ==
    \/ \E identifier \in Identifiers : isAllowed(identifier)
    \/ \E identifier \in Identifiers : getRemainingRequests(identifier)
    \/ \E identifier \in Identifiers : getResetTime(identifier)
    \/ LimiterTick

SpecLimiterQueries == InitLimiter /\ [][NextLimiterQueries]_vars

---------------------------------------------------------------------------
(* The SecurityAuditLogger on its own.  appended keeps every entry ever    *)
(* pushed, and details numbers the calls.  SpecLogger starts after         *)
(* PreLogged earlier log calls, so that the cap is within reach;           *)
(* SpecLogQueries starts with the empty log and adds getLogs.              *)

PreLogged == MaxLogs - 1

LogLevels == {"info", "error"}
LogUserIds == {Undefined, "u1"}
LogFilters ==
    {UndefinedObject} \cup
    [level : {Undefined, "", "error"}, userId : {Undefined, "", "u1"},
     since : {UndefinedObject, DateOf(0), DateOf(LogTickMs)}]

\* the log calls made since the start
LogCallsMade ==
    IF appended # << >> /\ appended[1].event = "earlier_event"
    THEN Len(appended) - PreLogged
    ELSE Len(appended)

log(level, userId) ==
    /\ LogCallsMade < MaxLogCalls
    /\ logs' = LoggerLog(logs, now, level, "security_event", Len(appended) + 1,
                         userId, Undefined)
    /\ appended' = Append(appended,
                      LogEntry(now, level, "security_event", Len(appended) + 1,
                               userId, Undefined))
    /\ UNCHANGED <<now, images, jobs, processingRequests, calls, nCalls, rlCalls,
                   logQuery, limiterQueryVars, retryVars, errorVars, stepVars,
                   uploadVars, galleryVars, statusVars, readVars>>

getLogs(filter) ==
    /\ logQuery' = [op |-> "getLogs", filter |-> filter, retained |-> logs,
                    result |-> GetLogs(logs, filter)]
    /\ UNCHANGED <<now, images, jobs, processingRequests, logs, calls, nCalls, rlCalls,
                   appended, limiterQueryVars, retryVars, errorVars, stepVars,
                   uploadVars, galleryVars, statusVars, readVars>>

LoggerTick ==
    /\ now < MaxLogTicks * LogTickMs
    /\ now' = now + LogTickMs
    /\ UNCHANGED <<images, jobs, processingRequests, logs, calls, nCalls, rlCalls,
                   limiterQueryVars, loggerVars, retryVars, errorVars, stepVars,
                   uploadVars, galleryVars, statusVars, readVars>>

NextLogger ==
    \/ \E level \in LogLevels, userId \in LogUserIds : log(level, userId)
    \/ LoggerTick

NextLogQueries ==
    \/ \E level \in LogLevels, userId \in LogUserIds : log(level, userId)
    \/ \E filter \in LogFilters : getLogs(filter)
    \/ LoggerTick

InitLogger ==
    /\ now = 0
    /\ images \in InitialImages /\ images[1].status = "pending"
    /\ jobs = << >>
    /\ processingRequests = << >>
    /\ logs = [k \in 1..PreLogged |->
                  LogEntry(0, "info", "earlier_event", k, Undefined, Undefined)]
    /\ appended = logs
    /\ calls = << >>
    /\ nCalls = 0
    /\ rlCalls = << >>
    /\ rlQuery = NoCall
    /\ logQuery = NoCall
    /\ retry = NoCall
    /\ errorLog = << >>
    /\ handled = NoCall
    /\ invocations = << >>
    /\ finished = {}
    /\ uploadRequests = << >>
    /\ generalRequests = << >>
    /\ uploads = << >>
    /\ listed = << >>
    /\ paging = NoCall
    /\ statusQuery = NoCall
    /\ reads = << >>

SpecLogger == InitLogger /\ [][NextLogger]_vars

SpecLogQueries == InitLimiter /\ [][NextLogQueries]_vars

---------------------------------------------------------------------------
(* withRetry(operation, maxRetries, delay), step by step.  retry holds the *)
(* call: its arguments, the loop's attempt, where it stands (pc), every    *)
(* settled invocation of operation with its time (invoked), the waits it   *)
(* has asked setTimeout for (waits), lastError, and how it ended (outcome, *)
(* once pc is "done").  The operation settles as its caller's code makes   *)
(* it: with a value or with an error.                                      *)

RetryDelays == {1000, 500}
OperationValues == {"value"}
OperationErrors == {"first error", "other error"}

\* mutant: the wait does not grow
WaitTimeConstant(delay, attempt) == delay

\* delay * Math.pow(2, attempt)
WaitTime(delay, attempt) == delay * 2^attempt

\* mutant: the error kept is that of the first failed attempt
OnRejectedKeepingFirst(r, error, t) ==
    LET lastError == IF r.lastError = Undefined THEN error ELSE r.lastError
        failed == [r EXCEPT !.invoked = Append(@, [at |-> t, settled |-> Threw(error)]),
                            !.lastError = lastError]
    IN  IF r.attempt = r.maxRetries
        THEN [failed EXCEPT !.pc = "done", !.outcome = Threw(lastError)]
        ELSE [failed EXCEPT !.pc = "wait",
                            !.waits = Append(@, WaitTime(r.delay, r.attempt))]

\* the catch: keep the error, throw it on the last attempt, else set the timer
OnRejected(r, error, t) ==
    LET failed == [r EXCEPT !.invoked = Append(@, [at |-> t, settled |-> Threw(error)]),
                            !.lastError = error]
    IN  IF r.attempt = r.maxRetries
        THEN [failed EXCEPT !.pc = "done", !.outcome = Threw(error)]
        ELSE [failed EXCEPT !.pc = "wait",
                            !.waits = Append(@, WaitTime(r.delay, r.attempt))]

\* return await operation()
OnFulfilled(r, value, t) ==
    [r EXCEPT !.invoked = Append(@, [at |-> t, settled |-> Returned(value)]),
              !.pc = "done", !.outcome = Returned(value)]

\* the for loop's test, after attempt++ or at the start
LoopTest(r) ==
    IF r.attempt <= r.maxRetries
    THEN [r EXCEPT !.pc = "invoke"]
    ELSE [r EXCEPT !.pc = "done", !.outcome = Threw(r.lastError)]

withRetry(maxRetries, delay) ==
    /\ retry = NoCall
    /\ retry' = LoopTest([op |-> "withRetry", maxRetries |-> maxRetries, delay |-> delay,
                          attempt |-> 0, pc |-> "start", started |-> now,
                          invoked |-> << >>, waits |-> << >>,
                          lastError |-> Undefined, outcome |-> NoCall])
    /\ UNCHANGED <<now, images, jobs, processingRequests, logs, calls, nCalls, rlCalls,
                   limiterQueryVars, loggerVars, errorVars, stepVars,
                   uploadVars, galleryVars, statusVars, readVars>>

\* the awaited operation() settles
operationSettles(settled) ==
    /\ retry # NoCall
    /\ retry.pc = "invoke"
    /\ retry' = IF settled.threw
                THEN OnRejected(retry, settled.error, now)
                ELSE OnFulfilled(retry, settled.value, now)
    /\ UNCHANGED <<now, images, jobs, processingRequests, logs, calls, nCalls, rlCalls,
                   limiterQueryVars, loggerVars, errorVars, stepVars,
                   uploadVars, galleryVars, statusVars, readVars>>

\* the timer of the wait fires: waitTime has passed
timerFires ==
    /\ retry # NoCall
    /\ retry.pc = "wait"
    /\ now' = now + retry.waits[Len(retry.waits)]
    /\ retry' = LoopTest([retry EXCEPT !.attempt = @ + 1])
    /\ UNCHANGED <<images, jobs, processingRequests, logs, calls, nCalls, rlCalls,
                   limiterQueryVars, loggerVars, errorVars, stepVars,
                   uploadVars, galleryVars, statusVars, readVars>>

NextRetry ==
    \/ \E maxRetries \in 0..MaxRetriesTried, delay \in RetryDelays :
           withRetry(maxRetries, delay)
    \/ \E value \in OperationValues : operationSettles(Returned(value))
    \/ \E error \in OperationErrors : operationSettles(Threw(error))
    \/ timerFires

SpecRetry == InitLimiter /\ [][NextRetry]_vars

---------------------------------------------------------------------------
(* ErrorHandler.  A message is the sequence of its words; the words drawn  *)
(* here contain no keyword other than themselves, so that                  *)
(* message.includes(keyword) is: the keyword's words occur in the message, *)
(* one after the other.  An error is a PaperbagError, another Error, or a  *)
(* thrown value that is no Error.                                          *)

ErrorTypes ==
    {"NETWORK", "VALIDATION", "AUTHENTICATION", "AUTHORIZATION", "PROCESSING",
     "UPLOAD", "API", "UNKNOWN"}

Words ==
    {"Network", "connection", "fetch", "timeout", "Unauthorized", "forbidden",
     "Invalid", "generation", "500", "429", "Rate", "limit", "failed"}

Messages == {<<w>> : w \in Words} \cup {<<w1, w2>> : w1 \in Words, w2 \in Words}

ThrownErrors ==
    [kind : {"PaperbagError"}, type : ErrorTypes,
     message : {<<"Invalid">>, <<"Network", "failed">>}, retryable : BOOLEAN]
    \cup [kind : {"Error"}, message : Messages]
    \cup [kind : {"string"}]

LowerWord(w) ==
    CASE w = "Network" -> "network"
      [] w = "Unauthorized" -> "unauthorized"
      [] w = "Invalid" -> "invalid"
      [] w = "Rate" -> "rate"
      [] OTHER -> w

\* error.message.toLowerCase()
ToLowerCase(message) == [i \in DOMAIN message |-> LowerWord(message[i])]

\* message.includes(keyword)
Includes(message, keyword) ==
    \E i \in 1..(Len(message) - Len(keyword) + 1) :
        SubSeq(message, i, i + Len(keyword) - 1) = keyword

IncludesAny(message, keywords) == \E keyword \in keywords : Includes(message, keyword)

CategorizeError(error) ==
    LET message == ToLowerCase(error.message)
    IN  IF IncludesAny(message, {<<"network">>, <<"fetch">>, <<"timeout">>})
        THEN "NETWORK"
        ELSE IF IncludesAny(message, {<<"unauthorized">>, <<"authentication">>})
        THEN "AUTHENTICATION"
        ELSE IF IncludesAny(message, {<<"forbidden">>, <<"permission">>})
        THEN "AUTHORIZATION"
        ELSE IF IncludesAny(message, {<<"validation">>, <<"invalid">>})
        THEN "VALIDATION"
        ELSE IF IncludesAny(message, {<<"upload">>, <<"file">>})
        THEN "UPLOAD"
        ELSE IF IncludesAny(message, {<<"api">>, <<"openai">>})
        THEN "API"
        ELSE IF IncludesAny(message, {<<"processing">>, <<"generation">>})
        THEN "PROCESSING"
        ELSE "UNKNOWN"

IsRetryableError(error) ==
    LET message == ToLowerCase(error.message)
    IN  \/ IncludesAny(message, {<<"network">>, <<"timeout">>, <<"connection">>})
        \/ IncludesAny(message, {<<"500">>, <<"502">>, <<"503">>, <<"504">>})
        \/ IncludesAny(message, {<<"rate", "limit">>, <<"429">>})

\* handleError: the AppError it builds
HandleError(error, t) ==
    IF error.kind = "PaperbagError"
    THEN [type |-> error.type, message |-> error.message, code |-> Undefined,
          timestamp |-> t, retryable |-> error.retryable]
    ELSE IF error.kind = "Error"
    THEN [type |-> CategorizeError(error), message |-> error.message, code |-> "Error",
          timestamp |-> t, retryable |-> IsRetryableError(error)]
    ELSE [type |-> "UNKNOWN", message |-> <<"An unknown error occurred">>,
          code |-> Undefined, timestamp |-> t, retryable |-> FALSE]

\* logError: push, then slice(-100) over the cap
LogError(entries, appError) ==
    LET pushed == Append(entries, appError)
    IN  IF Len(pushed) > MaxErrorLog
        THEN SubSeq(pushed, Len(pushed) - MaxErrorLog + 1, Len(pushed))
        ELSE pushed

handleError(error) ==
    /\ Len(errorLog) < MaxHandled
    /\ errorLog' = LogError(errorLog, HandleError(error, now))
    /\ handled' = [op |-> "handleError", error |-> error,
                   result |-> HandleError(error, now)]
    /\ UNCHANGED <<now, images, jobs, processingRequests, logs, calls, nCalls, rlCalls,
                   limiterQueryVars, loggerVars, retryVars, stepVars,
                   uploadVars, galleryVars, statusVars, readVars>>

NextErrors == \E error \in ThrownErrors : handleError(error)

SpecErrors == InitLimiter /\ [][NextErrors]_vars

---------------------------------------------------------------------------
(* secureCartoonifyImage step by step: invocations overlap, each running   *)
(* from one await on the record store or the scheduler to the next.  An    *)
(* entry of invocations holds the caller and arguments, where the          *)
(* invocation stands (pc), the subject and the image it has read, the      *)
(* scheduler's error when runAfter threw, and its outcome once pc is       *)
(* "done".  The generation job is the platform's: on completion it sets    *)
(* the record's status to completed together with the derived URL.         *)

\* lines 60-71: the catch of withSecurity
LogHandlerError(w, caller, message) ==
    [w EXCEPT !.logs =
        Log(@, w.now, "error", "function_execution_error",
            [function |-> HandlerName, error |-> message,
             userId |-> SubjectOf(Await(GetUserIdentity(caller))),
             args |-> ArgTypes])]

Running(inv, pc) == [inv EXCEPT !.pc = pc]
Done(inv, outcome) == [inv EXCEPT !.pc = "done", !.outcome = outcome]

\* lines 21-58 and 169-184: from the call to the await of the query
BeforeQuery(w, inv) ==
    LET identity == Await(GetUserIdentity(inv.caller))
        identifier == RateLimitIdentifier(inv.caller)
        gate == IsAllowed(w.requests, identifier, w.now,
                          ProcessingWindowMs, ProcessingMaxRequests)
        audited == [w EXCEPT
                       !.requests = gate.requests,
                       !.logs = Log(@, w.now, "info", "image_processing_request",
                                    [function |-> HandlerName,
                                     userId |-> SubjectOf(identity),
                                     timestamp |-> w.now])]
    IN  IF identity = NullObject
        THEN [w |-> [w EXCEPT !.logs =
                        Log(@, w.now, "warning", "unauthorized_access_attempt",
                            [function |-> HandlerName, args |-> ArgTypes])],
              inv |-> Done(inv, Threw(AuthenticationRequired))]
        ELSE IF ~gate.allowed
        THEN [w |-> [w EXCEPT
                        !.requests = gate.requests,
                        !.logs =
                            Log(@, w.now, "warning", "rate_limit_exceeded",
                                [function |-> HandlerName, identifier |-> identifier,
                                 remainingRequests |->
                                     GetRemainingRequests(gate.requests, identifier,
                                         w.now, ProcessingWindowMs,
                                         ProcessingMaxRequests),
                                 resetTime |->
                                     GetResetTime(gate.requests, identifier, w.now,
                                                  ProcessingWindowMs)])],
              inv |-> Done(inv, Threw(RateLimited))]
        ELSE IF inv.args.style \notin AllowedStyles
        THEN [w |-> LogHandlerError(
                        [audited EXCEPT !.logs =
                            Log(@, w.now, "warning", "invalid_style_parameter",
                                [userId |-> identity.subject, style |-> inv.args.style,
                                 userAgent |-> Undefined, ipAddress |-> Undefined])],
                        inv.caller, InvalidStyle),
              inv |-> Done(inv, Threw(InvalidStyle))]
        ELSE [w |-> audited,
              inv |-> [Running(inv, "query") EXCEPT !.subject = identity.subject]]

\* lines 187-216: the query has answered
AfterQuery(w, inv) ==
    LET found == FindByStorageId(w.images, inv.args.storageId)
    IN  IF found = << >>
        THEN [w |-> LogHandlerError(w, inv.caller, RecordNotFound),
              inv |-> Done(inv, Threw(RecordNotFound))]
        ELSE IF found[1].userId # inv.subject
        THEN [w |-> LogHandlerError(
                        [w EXCEPT !.logs =
                            Log(@, w.now, "warning", "unauthorized_image_access",
                                [userId |-> inv.subject, imageId |-> found[1]._id,
                                 imageOwner |-> found[1].userId,
                                 userAgent |-> Undefined, ipAddress |-> Undefined])],
                        inv.caller, Unauthorized),
              inv |-> Done(inv, Threw(Unauthorized))]
        ELSE IF StatusGate(found[1]) = "processing"
        THEN [w |-> w, inv |-> Done(inv, Returned([success |-> TRUE,
                                                   status |-> "processing"]))]
        ELSE IF StatusGate(found[1]) = "completed"
        THEN [w |-> w, inv |-> Done(inv, Returned([success |-> TRUE,
                                                   status |-> "completed"]))]
        ELSE [w |-> w, inv |-> [Running(inv, "patch") EXCEPT !.image = found[1]]]

\* the world becomes w, and invocation p becomes inv
Becomes(p, r) ==
    /\ images' = r.w.images
    /\ jobs' = r.w.jobs
    /\ logs' = r.w.logs
    /\ processingRequests' = r.w.requests
    /\ invocations' = [invocations EXCEPT ![p] = r.inv]

\* a caller invokes the mutation; it runs to its first await on the store
invoke(caller, storageId, style) ==
    /\ Len(invocations) < MaxInvocations
    /\ LET r == BeforeQuery(World,
                    [caller |-> caller,
                     args |-> [storageId |-> storageId, style |-> style],
                     pc |-> "start", subject |-> Undefined, image |-> NullObject,
                     error |-> Undefined, outcome |-> NoCall])
       IN  /\ images' = r.w.images
           /\ jobs' = r.w.jobs
           /\ logs' = r.w.logs
           /\ processingRequests' = r.w.requests
           /\ invocations' = Append(invocations, r.inv)
    /\ UNCHANGED <<now, calls, nCalls, rlCalls, finished,
                   limiterQueryVars, loggerVars, retryVars, errorVars,
                   uploadVars, galleryVars, statusVars, readVars>>

\* line 187: the query answers
queryAnswers(p) ==
    /\ invocations[p].pc = "query"
    /\ Becomes(p, AfterQuery(World, invocations[p]))
    /\ UNCHANGED <<now, calls, nCalls, rlCalls, finished,
                   limiterQueryVars, loggerVars, retryVars, errorVars,
                   uploadVars, galleryVars, statusVars, readVars>>

\* lines 218-231: the patch to processing is done, and logged
patchProcessing(p) ==
    /\ invocations[p].pc = "patch"
    /\ Becomes(p, [w |-> StartProcessing(World, invocations[p].subject,
                                         invocations[p].image,
                                         invocations[p].args.style),
                    inv |-> Running(invocations[p], "schedule")])
    /\ UNCHANGED <<now, calls, nCalls, rlCalls, finished,
                   limiterQueryVars, loggerVars, retryVars, errorVars,
                   uploadVars, galleryVars, statusVars, readVars>>

\* lines 233-241: runAfter answers, or throws
runAfterAnswers(p, sched) ==
    /\ invocations[p].pc = "schedule"
    /\ IF sched = "ok"
       THEN LET r == ScheduleGeneration(World, invocations[p].subject,
                         invocations[p].image, invocations[p].args.style, sched)
            IN  Becomes(p, [w |-> r.w, inv |-> Done(invocations[p], r.outcome)])
       ELSE Becomes(p, [w |-> World,
                        inv |-> [Running(invocations[p], "revert")
                                    EXCEPT !.error = sched]])
    /\ UNCHANGED <<now, calls, nCalls, rlCalls, finished,
                   limiterQueryVars, loggerVars, retryVars, errorVars,
                   uploadVars, galleryVars, statusVars, readVars>>

\* lines 242-256 and 60-71: the patch back to pending is done, and the throw
revertToPending(p) ==
    /\ invocations[p].pc = "revert"
    /\ LET r == ScheduleGeneration(World, invocations[p].subject,
                    invocations[p].image, invocations[p].args.style,
                    invocations[p].error)
       IN  Becomes(p, [w |-> LogHandlerError(r.w, invocations[p].caller,
                                             r.outcome.error),
                       inv |-> Done(invocations[p], r.outcome)])
    /\ UNCHANGED <<now, calls, nCalls, rlCalls, finished,
                   limiterQueryVars, loggerVars, retryVars, errorVars,
                   uploadVars, galleryVars, statusVars, readVars>>

\* the derived URL the generation stores for a record
DerivedUrl(image) == "cartoon:" \o image.originalStorageId

\* the generation of job j completes: status completed, with the derived URL
CompleteGeneration(imgs, job, t) ==
    [k \in DOMAIN imgs |->
        IF imgs[k].originalImageUrl = job.imageUrl /\ imgs[k].userId = job.userId
        THEN [imgs[k] EXCEPT !.status = "completed",
                             !.cartoonImageUrl = DerivedUrl(imgs[k]),
                             !.updatedAt = t]
        ELSE imgs[k]]

generationCompletes(j) ==
    /\ j \in DOMAIN jobs
    /\ j \notin finished
    /\ images' = CompleteGeneration(images, jobs[j], now)
    /\ finished' = finished \cup {j}
    /\ UNCHANGED <<now, jobs, processingRequests, logs, calls, nCalls, rlCalls,
                   invocations, limiterQueryVars, loggerVars, retryVars, errorVars,
                   uploadVars, galleryVars, statusVars, readVars>>

NextSteps ==
    \/ \E caller \in Identities, storageId \in StorageIds, style \in Styles :
           invoke(caller, storageId, style)
    \/ \E p \in DOMAIN invocations : queryAnswers(p)
    \/ \E p \in DOMAIN invocations : patchProcessing(p)
    \/ \E p \in DOMAIN invocations, sched \in SchedulerOutcomes :
           runAfterAnswers(p, sched)
    \/ \E p \in DOMAIN invocations : revertToPending(p)
    \/ \E j \in DOMAIN jobs : generationCompletes(j)
    \/ Tick

SpecSteps == InitLimiter /\ [][NextSteps]_vars

---------------------------------------------------------------------------
(* The other functions of convex/security.ts.  withSecurity is the same    *)
(* middleware with another limiter and audit event: Secure is its part     *)
(* before the handler; it answers the log and the limiter it leaves, and   *)
(* whether the handler runs (admitted) or what was thrown.                 *)

UploadWindowMs == 60000
UploadMaxRequests == 5
GeneralWindowMs == 60000
GeneralMaxRequests == 20
MaxFileSize == 10 * 1024 * 1024

UnauthorizedAccess == "Unauthorized access"
FileTooLarge == "File too large"
InvalidFileType == "Invalid file type"

\* lines 21-58 of withSecurity, for the limiter and audit event it is given
Secure(entries, requests, caller, t, windowMs, maxRequests, auditEvent) ==
    LET identity == Await(GetUserIdentity(caller))
        identifier == RateLimitIdentifier(caller)
        gate == IsAllowed(requests, identifier, t, windowMs, maxRequests)
    IN  IF identity = NullObject
        THEN [admitted |-> FALSE, outcome |-> Threw(AuthenticationRequired),
              requests |-> requests,
              logs |-> Log(entries, t, "warning", "unauthorized_access_attempt",
                           [function |-> HandlerName, args |-> ArgTypes])]
        ELSE IF ~gate.allowed
        THEN [admitted |-> FALSE, outcome |-> Threw(RateLimited),
              requests |-> gate.requests,
              logs |-> Log(entries, t, "warning", "rate_limit_exceeded",
                           [function |-> HandlerName, identifier |-> identifier,
                            remainingRequests |->
                                GetRemainingRequests(gate.requests, identifier, t,
                                                     windowMs, maxRequests),
                            resetTime |->
                                GetResetTime(gate.requests, identifier, t, windowMs)])]
        ELSE [admitted |-> TRUE, outcome |-> NoCall,
              requests |-> gate.requests,
              logs |-> Log(entries, t, "info", auditEvent,
                           [function |-> HandlerName, userId |-> SubjectOf(identity),
                            timestamp |-> t])]

\* lines 60-71 of withSecurity: what the handler throws is logged and thrown again
Caught(h, caller, t) ==
    IF h.outcome.threw
    THEN [h EXCEPT !.logs =
             Log(@, t, "error", "function_execution_error",
                 [function |-> HandlerName, error |-> h.outcome.error,
                  userId |-> SubjectOf(Await(GetUserIdentity(caller))),
                  args |-> ArgTypes])]
    ELSE h

(* secureGenerateUploadUrl and secureSaveUploadedImage.  An optional       *)
(* number is << >> when absent and <<n>> when given.  fileName is only     *)
(* sanitized into a value the handler never uses, so it is left out.       *)

UploadUrl == "upload-url"      \* what ctx.storage.generateUploadUrl() answers

\* ctx.storage.getUrl(storageId)
GetUrl(storageId) == IF storageId \in StorageIds THEN "url:" \o storageId ELSE Null

\* the _id the store gives the next record
NextId(imgs) == "img" \o ToString(Len(imgs) + 1)

\* lines 80-97: the handler of secureGenerateUploadUrl
GenerateUploadUrlHandler(entries, caller, t) ==
    LET identity == Await(GetUserIdentity(caller))
    IN  IF identity = NullObject
        THEN [logs |-> entries, outcome |-> Threw(AuthenticationRequired)]
        ELSE [logs |-> Log(entries, t, "info", "upload_url_generated",
                           [userId |-> identity.subject, timestamp |-> t]),
              outcome |-> Returned(UploadUrl)]

FileTypes == {"image/jpeg", "image/jpg", "image/png", "image/webp"}

\* lines 112-153: the handler of secureSaveUploadedImage
SaveUploadedImageHandler(imgs, entries, caller, args, t) ==
    LET identity == Await(GetUserIdentity(caller))
        imageUrl == GetUrl(args.storageId)
        imageId == NextId(imgs)
    IN  IF identity = NullObject \/ identity.subject # args.userId
        THEN [images |-> imgs, logs |-> entries, outcome |-> Threw(UnauthorizedAccess)]
        ELSE IF args.fileSize # << >> /\ args.fileSize[1] # 0
                /\ args.fileSize[1] > MaxFileSize
        THEN [images |-> imgs, logs |-> entries, outcome |-> Threw(FileTooLarge)]
        ELSE IF Truthy(args.fileType) /\ args.fileType \notin FileTypes
        THEN [images |-> imgs, logs |-> entries, outcome |-> Threw(InvalidFileType)]
        ELSE [images |-> Append(imgs,
                  [_id |-> imageId, userId |-> args.userId,
                   originalStorageId |-> args.storageId,
                   originalImageUrl |-> IF Truthy(imageUrl) THEN imageUrl ELSE Undefined,
                   cartoonImageUrl |-> Undefined,
                   status |-> "pending", createdAt |-> t, updatedAt |-> t]),
              logs |-> Log(entries, t, "info", "image_saved",
                           [userId |-> args.userId, imageId |-> imageId,
                            fileSize |-> args.fileSize, fileType |-> args.fileType,
                            timestamp |-> t]),
              outcome |-> Returned(imageId)]

\* the files the model uploads: no metadata, a fine one, too large, not an image
Files ==
    { [fileSize |-> << >>, fileType |-> Undefined],
      [fileSize |-> <<1024>>, fileType |-> "image/png"],
      [fileSize |-> <<MaxFileSize + 1>>, fileType |-> "image/png"],
      [fileSize |-> <<1024>>, fileType |-> "image/gif"] }

MaxUploadCalls == 3
MaxQuotaCalls == 6
MaxUploadTicks == 1
UploadTickMs == UploadWindowMs

\* one invocation of the mutation secureGenerateUploadUrl, from call to answer
secureGenerateUploadUrl(caller) ==
    /\ LET s == Secure(logs, uploadRequests, caller, now,
                       UploadWindowMs, UploadMaxRequests, "upload_url_request")
           h == IF s.admitted
                THEN Caught(GenerateUploadUrlHandler(s.logs, caller, now), caller, now)
                ELSE [logs |-> s.logs, outcome |-> s.outcome]
       IN  /\ uploadRequests' = s.requests
           /\ logs' = h.logs
           /\ uploads' = Append(uploads,
                  [op |-> "secureGenerateUploadUrl", caller |-> caller,
                   time |-> now, outcome |-> h.outcome])
    /\ UNCHANGED <<now, images, jobs, processingRequests, calls, nCalls, rlCalls,
                   limiterQueryVars, loggerVars, retryVars, errorVars, stepVars,
                   galleryVars, statusVars, readVars>>

\* one invocation of the mutation secureSaveUploadedImage, from call to answer
secureSaveUploadedImage(caller, storageId, userId, file) ==
    /\ LET args == [storageId |-> storageId, userId |-> userId,
                    fileSize |-> file.fileSize, fileType |-> file.fileType]
           s == Secure(logs, uploadRequests, caller, now,
                       UploadWindowMs, UploadMaxRequests, "image_save")
           h == IF s.admitted
                THEN Caught(SaveUploadedImageHandler(images, s.logs, caller, args, now),
                            caller, now)
                ELSE [images |-> images, logs |-> s.logs, outcome |-> s.outcome]
       IN  /\ uploadRequests' = s.requests
           /\ logs' = h.logs
           /\ images' = h.images
           /\ uploads' = Append(uploads,
                  [op |-> "secureSaveUploadedImage", caller |-> caller,
                   storageId |-> storageId, userId |-> userId,
                   time |-> now, outcome |-> h.outcome])
    /\ UNCHANGED <<now, jobs, processingRequests, calls, nCalls, rlCalls,
                   limiterQueryVars, loggerVars, retryVars, errorVars, stepVars,
                   galleryVars, statusVars, readVars>>

UploadTick ==
    /\ now < MaxUploadTicks * UploadTickMs
    /\ now' = now + UploadTickMs
    /\ UNCHANGED <<images, jobs, processingRequests, logs, calls, nCalls, rlCalls,
                   limiterQueryVars, loggerVars, retryVars, errorVars, stepVars,
                   uploadVars, galleryVars, statusVars, readVars>>

\* the module is loaded and nothing has been called
Fresh ==
    /\ now = 0
    /\ jobs = << >>
    /\ processingRequests = << >>
    /\ logs = << >>
    /\ calls = << >>
    /\ nCalls = 0
    /\ rlCalls = << >>
    /\ Untouched

\* nothing is uploaded yet
InitUploads == Fresh /\ images = << >>

\* any callers, a few invocations
NextUploads ==
    \/ /\ Len(uploads) < MaxUploadCalls
       /\ \E caller \in Identities : secureGenerateUploadUrl(caller)
    \/ /\ Len(uploads) < MaxUploadCalls
       /\ \E caller \in Identities, storageId \in StorageIds, userId \in Users,
             file \in Files :
              secureSaveUploadedImage(caller, storageId, userId, file)
    \/ UploadTick

SpecUploads == InitUploads /\ [][NextUploads]_vars

\* one caller uploading files that pass the checks, starting from no earlier
\* request
Uploader == "u1"
FineFiles == {file \in Files : file.fileSize = <<1024>> /\ file.fileType \in FileTypes}

NextUploadQuota ==
    \/ /\ Len(uploads) < MaxQuotaCalls
       /\ secureGenerateUploadUrl(Uploader)
    \/ /\ Len(uploads) < MaxQuotaCalls
       /\ \E storageId \in StorageIds, file \in FineFiles :
              secureSaveUploadedImage(Uploader, storageId, Uploader, file)
    \/ UploadTick

SpecUploadQuota == InitUploads /\ [][NextUploadQuota]_vars

---------------------------------------------------------------------------
(* getRateLimitStatus and getSecurityLogs: queries without the middleware. *)

\* lines 345-366: the handler of getRateLimitStatus
GetRateLimitStatusHandler(caller, t, upload, processing, general) ==
    LET identity == Await(GetUserIdentity(caller))
        userId == identity.subject
    IN  IF identity = NullObject
        THEN Threw(AuthenticationRequired)
        ELSE Returned(
               [upload |->
                   [remaining |-> GetRemainingRequests(upload, userId, t,
                                      UploadWindowMs, UploadMaxRequests),
                    resetTime |-> GetResetTime(upload, userId, t, UploadWindowMs)],
                processing |->
                   [remaining |-> GetRemainingRequests(processing, userId, t,
                                      ProcessingWindowMs, ProcessingMaxRequests),
                    resetTime |-> GetResetTime(processing, userId, t,
                                               ProcessingWindowMs)],
                general |->
                   [remaining |-> GetRemainingRequests(general, userId, t,
                                      GeneralWindowMs, GeneralMaxRequests),
                    resetTime |-> GetResetTime(general, userId, t, GeneralWindowMs)]])

\* one invocation of the query getRateLimitStatus; the history notes how many
\* secureCartoonifyImage invocations came before it
getRateLimitStatus(caller) ==
    /\ statusQuery' =
           [op |-> "getRateLimitStatus", caller |-> caller, time |-> now,
            after |-> nCalls,
            outcome |-> GetRateLimitStatusHandler(caller, now, uploadRequests,
                            processingRequests, generalRequests)]
    /\ UNCHANGED <<now, images, jobs, processingRequests, logs, calls, nCalls, rlCalls,
                   limiterQueryVars, loggerVars, retryVars, errorVars, stepVars,
                   uploadVars, galleryVars, readVars>>

\* the record s1 is asked for, by anyone, with a style that is allowed or not
NextStatus ==
    \/ \E caller \in Identities, style \in Styles :
           secureCartoonifyImage(caller, "s1", style, "ok")
    \/ \E caller \in Identities : getRateLimitStatus(caller)
    \/ Tick

SpecStatus == InitLimiter /\ [][NextStatus]_vars

\* the entry getSecurityLogs writes before it reads (lines 324-328)
AccessEntry(caller, args, t) ==
    LogEntry(t, "info", "security_logs_accessed",
             [userId |-> SubjectOf(Await(GetUserIdentity(caller))),
              filters |-> args, timestamp |-> t],
             Undefined, Undefined)

\* lines 330-334: the filter built from the arguments; since is << >> when
\* absent and <<n>> when given
FilterOf(args) ==
    [level |-> args.level, userId |-> args.userId,
     since |-> IF args.since # << >> /\ args.since[1] # 0
               THEN DateOf(args.since[1]) ELSE UndefinedObject]

\* mutant: the access is not logged
GetSecurityLogsHandlerSilent(entries, caller, args, t) ==
    IF Await(GetUserIdentity(caller)) = NullObject
    THEN [logs |-> entries, outcome |-> Threw(AuthenticationRequired)]
    ELSE [logs |-> entries, outcome |-> Returned(GetLogs(entries, FilterOf(args)))]

\* lines 315-337: the handler of getSecurityLogs
GetSecurityLogsHandler(entries, caller, args, t) ==
    IF Await(GetUserIdentity(caller)) = NullObject
    THEN [logs |-> entries, outcome |-> Threw(AuthenticationRequired)]
    ELSE LET logged == Log(entries, t, "info", "security_logs_accessed",
                           [userId |-> SubjectOf(Await(GetUserIdentity(caller))),
                            filters |-> args, timestamp |-> t])
         IN  [logs |-> logged, outcome |-> Returned(GetLogs(logged, FilterOf(args)))]

MaxReads == 2
MaxAuditCalls == 1

\* the arguments the model reads the log with
ReadArgs ==
    { [level |-> Undefined, userId |-> Undefined, since |-> << >>],
      [level |-> Undefined, userId |-> "u1", since |-> << >>],
      [level |-> "warning", userId |-> Undefined, since |-> <<0>>],
      [level |-> "info", userId |-> Undefined, since |-> <<1>>] }

\* one invocation of the query getSecurityLogs, from call to answer
getSecurityLogs(caller, args) ==
    /\ Len(reads) < MaxReads
    /\ LET h == GetSecurityLogsHandler(logs, caller, args, now)
       IN  /\ logs' = h.logs
           /\ reads' = Append(reads,
                  [op |-> "getSecurityLogs", caller |-> caller, args |-> args,
                   time |-> now, before |-> logs, after |-> h.logs,
                   outcome |-> h.outcome])
    /\ UNCHANGED <<now, images, jobs, processingRequests, calls, nCalls, rlCalls,
                   limiterQueryVars, loggerVars, retryVars, errorVars, stepVars,
                   uploadVars, galleryVars, statusVars>>

\* the filters getLogs is called with directly
DirectFilters ==
    {UndefinedObject, [level |-> "info", userId |-> Undefined, since |-> UndefinedObject]}

NextAudit ==
    \/ /\ nCalls < MaxAuditCalls
       /\ \E caller \in Identities, style \in Styles, sched \in SchedulerOutcomes :
              secureCartoonifyImage(caller, "s1", style, sched)
    \/ \E caller \in Identities, args \in ReadArgs : getSecurityLogs(caller, args)
    \/ \E filter \in DirectFilters : getLogs(filter)

SpecAudit == InitLimiter /\ [][NextAudit]_vars

---------------------------------------------------------------------------
(* secureGetUserImages.  The cursor is a string: the decimal numeral of a  *)
(* number, or the empty string; UndefinedObject when absent.  The optional *)
(* limit is << >> when absent and <<n>> when given, n a natural number.    *)
(* The index by_user yields an owner's records in insertion order, and     *)
(* createdAt, taken from Date.now() at insertion, never decreases along    *)
(* it.                                                                     *)

DefaultLimit == 20
LimitCap == 100

Numeral(n) == [chars |-> "digits", value |-> n]
EmptyString == [chars |-> "none"]

\* n.toString()
ToStringOf(n) == Numeral(n)
\* parseInt(str), of a numeral
ParseInt(str) == str.value
\* if (str): a string that is given and not empty
TruthyString(str) == str # UndefinedObject /\ str # EmptyString

Reverse(s) == [i \in 1..Len(s) |-> s[Len(s) + 1 - i]]

\* ctx.db.query("images").withIndex("by_user", q => q.eq("userId", userId)).order("desc")
OwnedDesc(imgs, userId) ==
    Reverse(SelectSeq(imgs, LAMBDA image : image.userId = userId))

\* query.take(n)
Take(s, n) == SubSeq(s, 1, IF n <= Len(s) THEN n ELSE Len(s))

\* Math.min(args.limit || 20, 100)
EffectiveLimit(limit) ==
    LET asked == IF limit = << >> \/ limit[1] = 0 THEN DefaultLimit ELSE limit[1]
    IN  IF asked <= LimitCap THEN asked ELSE LimitCap

\* mutant: the limit asked for is not capped
GetUserImagesHandlerUncapped(imgs, caller, args) ==
    LET identity == Await(GetUserIdentity(caller))
        limit == IF args.limit = << >> \/ args.limit[1] = 0
                 THEN DefaultLimit ELSE args.limit[1]
        owned == OwnedDesc(imgs, args.userId)
        below == IF TruthyString(args.cursor)
                 THEN SelectSeq(owned, LAMBDA image :
                                           image.createdAt < ParseInt(args.cursor))
                 ELSE owned
        page == Take(below, limit)
        hasMore == Len(page) = limit
    IN  IF identity = NullObject \/ identity.subject # args.userId
        THEN Threw(UnauthorizedAccess)
        ELSE Returned([images |-> page, hasMore |-> hasMore,
                       nextCursor |-> IF hasMore
                                      THEN ToStringOf(page[Len(page)].createdAt)
                                      ELSE NullObject])

\* lines 273-299: the handler of secureGetUserImages
GetUserImagesHandler(imgs, caller, args) ==
    LET identity == Await(GetUserIdentity(caller))
        limit == EffectiveLimit(args.limit)
        owned == OwnedDesc(imgs, args.userId)
        below == IF TruthyString(args.cursor)
                 THEN SelectSeq(owned, LAMBDA image :
                                           image.createdAt < ParseInt(args.cursor))
                 ELSE owned
        page == Take(below, limit)
        hasMore == Len(page) = limit
    IN  IF identity = NullObject \/ identity.subject # args.userId
        THEN Threw(UnauthorizedAccess)
        ELSE Returned([images |-> page, hasMore |-> hasMore,
                       nextCursor |-> IF hasMore
                                      THEN ToStringOf(page[Len(page)].createdAt)
                                      ELSE NullObject])

\* secureGetUserImages from call to answer: the limiter and the log it leaves,
\* and the outcome
Listing(caller, args) ==
    LET s == Secure(logs, generalRequests, caller, now,
                    GeneralWindowMs, GeneralMaxRequests, "user_images_query")
    IN  IF s.admitted
        THEN LET h == Caught([logs |-> s.logs,
                              outcome |-> GetUserImagesHandler(images, caller, args)],
                             caller, now)
             IN  [requests |-> s.requests, logs |-> h.logs, outcome |-> h.outcome]
        ELSE [requests |-> s.requests, logs |-> s.logs, outcome |-> s.outcome]

MaxListCalls == 1
MaxGalleryTicks == 1
GalleryTickMs == GeneralWindowMs

\* one invocation of the query secureGetUserImages
secureGetUserImages(caller, userId, limit, cursor) ==
    /\ LET args == [userId |-> userId, limit |-> limit, cursor |-> cursor]
           r == Listing(caller, args)
       IN  /\ generalRequests' = r.requests
           /\ logs' = r.logs
           /\ listed' = Append(listed,
                  [op |-> "secureGetUserImages", caller |-> caller, args |-> args,
                   time |-> now, outcome |-> r.outcome])
    /\ UNCHANGED <<now, images, jobs, processingRequests, calls, nCalls, rlCalls, paging,
                   limiterQueryVars, loggerVars, retryVars, errorVars, stepVars,
                   uploadVars, statusVars, readVars>>

\* what a page adds to the pages loaded so far
Loaded(p, outcome) ==
    IF outcome.threw
    THEN [p EXCEPT !.state = "failed"]
    ELSE [p EXCEPT !.pages = Append(@, outcome.value.images),
                   !.cursor = outcome.value.nextCursor,
                   !.state = IF outcome.value.hasMore THEN "more" ELSE "done"]

\* a client starts paging through its images: the first page, with no cursor
loadFirst(owner, limit) ==
    /\ paging = NoCall
    /\ LET r == Listing(owner, [userId |-> owner, limit |-> limit,
                                cursor |-> UndefinedObject])
       IN  /\ generalRequests' = r.requests
           /\ logs' = r.logs
           /\ paging' = Loaded([op |-> "paging", owner |-> owner, limit |-> limit,
                                pages |-> << >>, cursor |-> NullObject,
                                state |-> "more"],
                               r.outcome)
    /\ UNCHANGED <<now, images, jobs, processingRequests, calls, nCalls, rlCalls, listed,
                   limiterQueryVars, loggerVars, retryVars, errorVars, stepVars,
                   uploadVars, statusVars, readVars>>

\* the client asks for the next page, with the nextCursor of the previous one
loadMore ==
    /\ paging # NoCall
    /\ paging.state = "more"
    /\ LET r == Listing(paging.owner, [userId |-> paging.owner, limit |-> paging.limit,
                                       cursor |-> paging.cursor])
       IN  /\ generalRequests' = r.requests
           /\ logs' = r.logs
           /\ paging' = Loaded(paging, r.outcome)
    /\ UNCHANGED <<now, images, jobs, processingRequests, calls, nCalls, rlCalls, listed,
                   limiterQueryVars, loggerVars, retryVars, errorVars, stepVars,
                   uploadVars, statusVars, readVars>>

GalleryTick ==
    /\ now < Len(images) + MaxGalleryTicks * GalleryTickMs
    /\ now' = now + GalleryTickMs
    /\ UNCHANGED <<images, jobs, processingRequests, logs, calls, nCalls, rlCalls,
                   limiterQueryVars, loggerVars, retryVars, errorVars, stepVars,
                   uploadVars, galleryVars, statusVars, readVars>>

\* record k as secureSaveUploadedImage inserted it at time t for the owner
Saved(k, owner, t) ==
    [_id |-> "img" \o ToString(k), userId |-> owner,
     originalStorageId |-> "s" \o ToString(k),
     originalImageUrl |-> "url:s" \o ToString(k), cartoonImageUrl |-> Undefined,
     status |-> "pending", createdAt |-> t, updatedAt |-> t]

\* the tables the model lists: a few records of two owners, two of them saved
\* in the same millisecond; and an owner with more records than the cap
FewImages ==
    <<Saved(1, "u1", 0), Saved(2, "u2", 0), Saved(3, "u1", 1), Saved(4, "u1", 1)>>
ManyImages == [k \in 1..(LimitCap + 1) |-> Saved(k, "u1", k)]

\* the general limiter and the log after n secureGetUserImages invocations at
\* time t
AfterQueries(n, t) ==
    [requests |-> IF n = 0 THEN << >> ELSE ("anonymous" :> [k \in 1..n |-> t]),
     logs |-> [k \in 1..n |->
                  LogEntry(t, "info", "user_images_query",
                           [function |-> HandlerName, userId |-> "u1", timestamp |-> t],
                           Undefined, Undefined)]]

InitGallery ==
    /\ images \in {FewImages, ManyImages}
    /\ now = images[Len(images)].createdAt
    /\ \E n \in {0, GeneralMaxRequests} :
          /\ generalRequests = AfterQueries(n, now).requests
          /\ logs = AfterQueries(n, now).logs
    /\ jobs = << >>
    /\ processingRequests = << >>
    /\ calls = << >>
    /\ nCalls = 0
    /\ rlCalls = << >>
    /\ rlQuery = NoCall
    /\ appended = << >>
    /\ logQuery = NoCall
    /\ retry = NoCall
    /\ errorLog = << >>
    /\ handled = NoCall
    /\ invocations = << >>
    /\ finished = {}
    /\ uploadRequests = << >>
    /\ uploads = << >>
    /\ listed = << >>
    /\ paging = NoCall
    /\ statusQuery = NoCall
    /\ reads = << >>

Limits == {<< >>, <<0>>, <<1>>, <<2>>, <<LimitCap + 50>>}
Cursors == {UndefinedObject, EmptyString, Numeral(0), Numeral(1), Numeral(LimitCap + 1)}

\* a run is either single invocations or one client paging
NextGallery ==
    \/ /\ Len(listed) < MaxListCalls
       /\ paging = NoCall
       /\ \E caller \in Identities, userId \in Users, limit \in Limits,
             cursor \in Cursors :
              secureGetUserImages(caller, userId, limit, cursor)
    \/ /\ listed = << >>
       /\ \E owner \in Users, limit \in Limits : loadFirst(owner, limit)
    \/ loadMore
    \/ GalleryTick

SpecGallery == InitGallery /\ [][NextGallery]_vars

---------------------------------------------------------------------------
(* What the properties below speak of.  c is an entry of calls: the        *)
(* invocation's caller and arguments, the scheduler's answer, the outcome, *)
(* and the world before (pre) and after (post).                            *)

\* the style set of the specification
SpecStyles ==
    {"simpsons", "studio-ghibli", "family-guy", "disney", "anime", "comic-book",
     "south-park"}

HasRecord(imgs, storageId) ==
    \E k \in DOMAIN imgs : imgs[k].originalStorageId = storageId

\* the record a storage reference resolves to: the first match
Resolved(imgs, storageId) ==
    imgs[CHOOSE k \in DOMAIN imgs :
            /\ imgs[k].originalStorageId = storageId
            /\ \A j \in 1..(k - 1) : imgs[j].originalStorageId # storageId]

ById(imgs, id) == imgs[CHOOSE k \in DOMAIN imgs : imgs[k]._id = id]

Authenticated(c) == c.caller \in Users
ValidStyle(c) == c.style \in SpecStyles
ByOwner(c) ==
    /\ Authenticated(c)
    /\ HasRecord(c.pre.images, c.storageId)
    /\ Resolved(c.pre.images, c.storageId).userId = c.caller
ByOther(c) ==
    /\ Authenticated(c)
    /\ HasRecord(c.pre.images, c.storageId)
    /\ Resolved(c.pre.images, c.storageId).userId # c.caller
RecordBefore(c) == Resolved(c.pre.images, c.storageId)
RecordAfter(c) == ById(c.post.images, RecordBefore(c)._id)
HasDerivedUrl(image) == image.cartoonImageUrl \notin {Undefined, ""}

Success(c, status) == c.outcome = [threw |-> FALSE, value |-> [success |-> TRUE, status |-> status]]
Failed(c, message) == c.outcome = [threw |-> TRUE, error |-> message]
Admitted(c) == ~Failed(c, RateLimited)
SchedulerWorking(c) == c.sched \notin SchedulerErrors

RecordsUntouched(c) == c.post.images = c.pre.images
NoJobScheduled(c) == c.post.jobs = c.pre.jobs
OneJobScheduledFor(c, image) ==
    /\ Len(c.post.jobs) = Len(c.pre.jobs) + 1
    /\ SubSeq(c.post.jobs, 1, Len(c.pre.jobs)) = c.pre.jobs
    /\ c.post.jobs[Len(c.post.jobs)].imageUrl = image.originalImageUrl
    /\ c.post.jobs[Len(c.post.jobs)].userId = image.userId
    /\ c.post.jobs[Len(c.post.jobs)].style = c.style

\* the audit entries the invocation appended
NewLogs(c) == SubSeq(c.post.logs, Len(c.pre.logs) + 1, Len(c.post.logs))

---------------------------------------------------------------------------

TwiceInSuccession ==
    /\ Len(calls) = 2
    /\ ByOwner(calls[1]) /\ ValidStyle(calls[1])
    /\ calls[2].caller = calls[1].caller
    /\ calls[2].storageId = calls[1].storageId
    /\ calls[2].style = calls[1].style
    /\ calls[2].pre.images = calls[1].post.images
    /\ calls[2].pre.jobs = calls[1].post.jobs
    /\ RecordBefore(calls[1]).status = "pending"
    /\ SchedulerWorking(calls[1]) /\ SchedulerWorking(calls[2])
    /\ Admitted(calls[1]) /\ Admitted(calls[2])

(* C1.  Two invocations by the owner in immediate succession, for the same *)
(* storage reference and the same valid style, on a record that starts     *)
(* pending, with the scheduler working and both admitted by the rate       *)
(* limiter: the first moves the record to processing and schedules one     *)
(* job, the second changes nothing and schedules nothing, and both answer  *)
(* success with status processing.                                         *)

C1_Idempotent ==
    TwiceInSuccession =>
        /\ Success(calls[1], "processing")
        /\ Success(calls[2], "processing")
        /\ RecordAfter(calls[1]).status = "processing"
        /\ OneJobScheduledFor(calls[1], RecordBefore(calls[1]))
        /\ RecordsUntouched(calls[2])
        /\ NoJobScheduled(calls[2])
        /\ Len(calls[2].post.jobs) = Len(calls[1].pre.jobs) + 1

C1_Witness ==
    /\ TwiceInSuccession
    /\ Success(calls[1], "processing")
    /\ Success(calls[2], "processing")
    /\ RecordAfter(calls[2]).status = "processing"

---------------------------------------------------------------------------

OnProcessing(c) ==
    ByOwner(c) /\ ValidStyle(c) /\ RecordBefore(c).status = "processing"

(* C2.  As stated: an invocation by the owner with a valid style on a      *)
(* record in status processing answers {success, "processing"}, leaves the *)
(* records unchanged and schedules no job.                                 *)

C2_AsStated ==
    \A i \in DOMAIN calls :
        OnProcessing(calls[i]) =>
            /\ Success(calls[i], "processing")
            /\ RecordsUntouched(calls[i])
            /\ NoJobScheduled(calls[i])

(* C2, amended.  Such an invocation leaves the records unchanged and       *)
(* schedules no job; it answers {success, "processing"} when the rate      *)
(* limiter admits it.                                                      *)

C2_ProcessingShortCircuit ==
    \A i \in DOMAIN calls :
        OnProcessing(calls[i]) =>
            /\ RecordsUntouched(calls[i])
            /\ NoJobScheduled(calls[i])
            /\ Admitted(calls[i]) => Success(calls[i], "processing")

C2_Witness ==
    \E i \in DOMAIN calls :
        /\ OnProcessing(calls[i])
        /\ Success(calls[i], "processing")
        /\ calls[i].pre.now > RecordBefore(calls[i]).updatedAt

---------------------------------------------------------------------------

OnCompleted(c) ==
    /\ ByOwner(c) /\ ValidStyle(c)
    /\ RecordBefore(c).status = "completed"
    /\ HasDerivedUrl(RecordBefore(c))

(* C3.  As stated: an invocation by the owner with a valid style on a      *)
(* record in status completed with a non-empty derived URL answers         *)
(* {success, "completed"}, leaves status and updatedAt alone and schedules *)
(* no job.                                                                 *)

C3_AsStated ==
    \A i \in DOMAIN calls :
        OnCompleted(calls[i]) =>
            /\ Success(calls[i], "completed")
            /\ RecordsUntouched(calls[i])
            /\ NoJobScheduled(calls[i])

(* C3, amended.  Such an invocation leaves the records unchanged and       *)
(* schedules no job; it answers {success, "completed"} when the rate       *)
(* limiter admits it.                                                      *)

C3_CompletedNotReprocessed ==
    \A i \in DOMAIN calls :
        OnCompleted(calls[i]) =>
            /\ RecordsUntouched(calls[i])
            /\ NoJobScheduled(calls[i])
            /\ Admitted(calls[i]) => Success(calls[i], "completed")

C3_Witness ==
    \E i \in DOMAIN calls :
        /\ OnCompleted(calls[i])
        /\ Success(calls[i], "completed")
        /\ calls[i].pre.now > RecordBefore(calls[i]).updatedAt

---------------------------------------------------------------------------

NotShortCircuited(image) ==
    \/ image.status \in {"pending", "failed", "error"}
    \/ image.status = "completed" /\ ~HasDerivedUrl(image)

Acceptable(c) ==
    /\ ByOwner(c) /\ ValidStyle(c)
    /\ NotShortCircuited(RecordBefore(c))
    /\ SchedulerWorking(c)
    /\ Admitted(c)

(* C4.  An invocation by the owner with a valid style on a record that is  *)
(* pending, failed, error, or completed without a derived URL, admitted by *)
(* the rate limiter and with the scheduler working, answers {success,      *)
(* "processing"}, leaves the record in status processing with updatedAt    *)
(* the time of the call, and schedules exactly one job for it.             *)

C4_Acceptance ==
    \A i \in DOMAIN calls :
        Acceptable(calls[i]) =>
            /\ Success(calls[i], "processing")
            /\ RecordAfter(calls[i]) =
                  [RecordBefore(calls[i]) EXCEPT !.status = "processing",
                                                 !.updatedAt = calls[i].pre.now]
            /\ OneJobScheduledFor(calls[i], RecordBefore(calls[i]))

C4_Witness ==
    \E i \in DOMAIN calls :
        /\ Acceptable(calls[i])
        /\ RecordBefore(calls[i]).status = "completed"
        /\ RecordAfter(calls[i]).status = "processing"
        /\ RecordAfter(calls[i]).updatedAt > RecordBefore(calls[i]).updatedAt

---------------------------------------------------------------------------

SchedulerThrew(c) == c.sched \in SchedulerErrors

(* C5.  When runAfter throws, the record is left in status pending         *)
(* whatever its status was before the call, no job is scheduled, an error  *)
(* audit entry holding the scheduler's message is appended, and the caller *)
(* gets the error "Failed to schedule image generation".                   *)

C5_SchedulingFailure ==
    \A i \in DOMAIN calls :
        SchedulerThrew(calls[i]) =>
            /\ Failed(calls[i], SchedulingFailed)
            /\ RecordAfter(calls[i]).status = "pending"
            /\ NoJobScheduled(calls[i])
            /\ \E k \in DOMAIN NewLogs(calls[i]) :
                  /\ NewLogs(calls[i])[k].level = "error"
                  /\ NewLogs(calls[i])[k].event = "image_processing_scheduling_failed"
                  /\ NewLogs(calls[i])[k].details.error = calls[i].sched

C5_Witness ==
    \E i \in DOMAIN calls :
        /\ SchedulerThrew(calls[i])
        /\ RecordBefore(calls[i]).status = "failed"
        /\ RecordAfter(calls[i]).status = "pending"

---------------------------------------------------------------------------

WithInvalidStyle(c) == Authenticated(c) /\ ~ValidStyle(c)

(* C6.  As stated: every invocation by an authenticated caller with a      *)
(* style outside the style set is rejected with "Invalid cartoon style",   *)
(* whether or not a record exists for the storage reference and whoever    *)
(* owns it, and no record is modified and no job is scheduled.             *)

C6_AsStated ==
    \A i \in DOMAIN calls :
        WithInvalidStyle(calls[i]) =>
            /\ Failed(calls[i], InvalidStyle)
            /\ RecordsUntouched(calls[i])
            /\ NoJobScheduled(calls[i])

(* C6, amended.  Such an invocation modifies no record and schedules no    *)
(* job; when the rate limiter admits it, it is rejected with "Invalid      *)
(* cartoon style" whether or not a record exists and whoever owns it.      *)

C6_InvalidStyleFirst ==
    \A i \in DOMAIN calls :
        WithInvalidStyle(calls[i]) =>
            /\ RecordsUntouched(calls[i])
            /\ NoJobScheduled(calls[i])
            /\ Admitted(calls[i]) => Failed(calls[i], InvalidStyle)

C6_Witness ==
    /\ Len(calls) = 2
    /\ WithInvalidStyle(calls[1]) /\ WithInvalidStyle(calls[2])
    /\ ~HasRecord(calls[1].pre.images, calls[1].storageId)
    /\ ByOther(calls[2])
    /\ Failed(calls[1], InvalidStyle) /\ Failed(calls[2], InvalidStyle)

---------------------------------------------------------------------------
(* C7.  As stated: an invocation by an authenticated caller who does not   *)
(* own the record the storage reference resolves to fails with             *)
(* "Unauthorized access to image", the style being valid or not, and the   *)
(* record is left unchanged.                                               *)

C7_AsStated ==
    \A i \in DOMAIN calls :
        ByOther(calls[i]) =>
            /\ Failed(calls[i], Unauthorized)
            /\ RecordsUntouched(calls[i])

(* C7, amended.  Such an invocation always fails and leaves the records    *)
(* and the jobs unchanged; when the rate limiter admits it, it fails with  *)
(* "Unauthorized access to image" if the style is valid and with "Invalid  *)
(* cartoon style" if it is not.                                            *)

C7_NonOwnerRejected ==
    \A i \in DOMAIN calls :
        ByOther(calls[i]) =>
            /\ calls[i].outcome.threw
            /\ RecordsUntouched(calls[i])
            /\ NoJobScheduled(calls[i])
            /\ (Admitted(calls[i]) /\ ValidStyle(calls[i]))
                  => Failed(calls[i], Unauthorized)
            /\ (Admitted(calls[i]) /\ ~ValidStyle(calls[i]))
                  => Failed(calls[i], InvalidStyle)

C7_Witness ==
    \E i \in DOMAIN calls :
        /\ ByOther(calls[i])
        /\ ValidStyle(calls[i])
        /\ RecordBefore(calls[i]).status = "pending"
        /\ Failed(calls[i], Unauthorized)

---------------------------------------------------------------------------

\* the limiter holds maxRequests timestamps younger than the window under the
\* key the middleware uses for this caller
LimiterFull(c) ==
    \E identifier \in DOMAIN c.pre.requests :
        /\ identifier = RateLimitIdentifier(c.caller)
        /\ Cardinality({k \in DOMAIN c.pre.requests[identifier] :
               c.pre.now - c.pre.requests[identifier][k] < ProcessingWindowMs})
             >= ProcessingMaxRequests

(* C8.  An invocation the rate limiter rejects fails with "Rate limit      *)
(* exceeded", and leaves the records, the scheduled jobs and the limiter's *)
(* recorded timestamps as they were.                                       *)

C8_RateLimitBeforeMutation ==
    \A i \in DOMAIN calls :
        /\ (Authenticated(calls[i]) /\ LimiterFull(calls[i]))
              => Failed(calls[i], RateLimited)
        /\ Failed(calls[i], RateLimited) =>
              /\ LimiterFull(calls[i])
              /\ RecordsUntouched(calls[i])
              /\ NoJobScheduled(calls[i])
              /\ calls[i].post.requests = calls[i].pre.requests

C8_Witness ==
    \E i \in DOMAIN calls :
        /\ Failed(calls[i], RateLimited)
        /\ ByOwner(calls[i]) /\ ValidStyle(calls[i])
        /\ RecordBefore(calls[i]).status = "pending"

---------------------------------------------------------------------------

AdmittedWithinWindow(c) ==
    {k \in DOMAIN c.pre.logs :
        /\ c.pre.logs[k].event = "image_processing_request"
        /\ c.pre.logs[k].details.userId = c.caller
        /\ c.pre.now - c.pre.logs[k].timestamp < ProcessingWindowMs}

(* C9.  As stated: quota is per identity.  An invocation is rejected by    *)
(* the rate limiter only when the caller's own invocations admitted within *)
(* the last windowMs number maxRequests or more.  (Every admitted          *)
(* invocation leaves an image_processing_request audit entry naming the    *)
(* caller.)                                                                *)

C9_QuotaPerIdentity ==
    \A i \in DOMAIN calls :
        Failed(calls[i], RateLimited) =>
            Cardinality(AdmittedWithinWindow(calls[i])) >= ProcessingMaxRequests

---------------------------------------------------------------------------

AcceptedBefore(i) ==
    {j \in 1..(i - 1) :
        /\ rlCalls[j].identifier = rlCalls[i].identifier
        /\ rlCalls[j].allowed
        /\ rlCalls[i].time - rlCalls[j].time < ProcessingWindowMs}

(* C10.  RateLimiter.isAllowed, for every identifier: a call answers true  *)
(* exactly when fewer than maxRequests of the identifier's earlier calls   *)
(* that answered true are younger than windowMs.  So after maxRequests     *)
(* accepted calls the next call inside the window is rejected, however     *)
(* many rejected calls lie in between, and once windowMs has elapsed since *)
(* them a call is accepted again.                                          *)

C10_Window ==
    \A i \in DOMAIN rlCalls :
        rlCalls[i].allowed <=> Cardinality(AcceptedBefore(i)) < ProcessingMaxRequests

C10_Witness ==
    /\ Len(rlCalls) = 5
    /\ \A i \in 1..5 : rlCalls[i].identifier = "u1"
    /\ \A i \in 1..3 : rlCalls[i].allowed
    /\ ~rlCalls[4].allowed
    /\ rlCalls[4].time > rlCalls[1].time
    /\ rlCalls[5].allowed
    /\ rlCalls[5].time = rlCalls[3].time + ProcessingWindowMs

---------------------------------------------------------------------------

\* the identifier's recorded timestamps younger than the window at time t
Young(requests, identifier, t) ==
    {k \in DOMAIN RequestsOf(requests, identifier) :
        t - RequestsOf(requests, identifier)[k] < ProcessingWindowMs}

(* C11.  In every state reached by isAllowed, getRemainingRequests and     *)
(* getResetTime calls at non-decreasing times, and for every identifier,   *)
(* the recorded timestamps younger than windowMs number at most            *)
(* maxRequests.                                                            *)

C11_WindowCount ==
    \A identifier \in Identifiers :
        Cardinality(Young(processingRequests, identifier, now)) <= ProcessingMaxRequests

C11_Witness ==
    /\ Cardinality(Young(processingRequests, "u1", now)) = ProcessingMaxRequests
    /\ Len(RequestsOf(processingRequests, "u1")) = ProcessingMaxRequests
    /\ Len(rlCalls) = ProcessingMaxRequests + 2
    /\ \A i \in DOMAIN rlCalls : rlCalls[i].identifier = "u1"
    /\ ~rlCalls[ProcessingMaxRequests + 1].allowed
    /\ rlCalls[ProcessingMaxRequests + 2].allowed
    /\ rlQuery.op = "getResetTime"

---------------------------------------------------------------------------
(* C12.  For every identifier and in every state, getRemainingRequests     *)
(* plus the number of recorded timestamps younger than windowMs equals     *)
(* maxRequests, and it is never negative; every getRemainingRequests call  *)
(* answered so and left the limiter's map as it was.                       *)

C12_Remaining ==
    /\ \A identifier \in Identifiers :
          /\ GetRemainingRequests(processingRequests, identifier, now,
                                   ProcessingWindowMs, ProcessingMaxRequests)
               + Cardinality(Young(processingRequests, identifier, now))
                 = ProcessingMaxRequests
          /\ GetRemainingRequests(processingRequests, identifier, now,
                                   ProcessingWindowMs, ProcessingMaxRequests) >= 0
    /\ rlQuery.op = "getRemainingRequests" =>
          /\ rlQuery.result
               + Cardinality(Young(rlQuery.before, rlQuery.identifier, rlQuery.time))
                 = ProcessingMaxRequests
          /\ rlQuery.result >= 0
          /\ rlQuery.after = rlQuery.before

\* the query came when all the identifier's recorded timestamps had expired
C12_Witness ==
    /\ rlQuery.op = "getRemainingRequests"
    /\ Len(RequestsOf(rlQuery.before, rlQuery.identifier)) = ProcessingMaxRequests
    /\ rlQuery.result = ProcessingMaxRequests
    /\ \E i \in DOMAIN rlCalls :
          rlCalls[i].identifier = rlQuery.identifier /\ ~rlCalls[i].allowed

---------------------------------------------------------------------------

\* the isAllowed calls for the query's identifier made after the query
CallsAfterQuery(i) ==
    {j \in (rlQuery.at + 1)..(i - 1) : rlCalls[j].identifier = rlQuery.identifier}

(* C13.  getResetTime answers the earliest of the identifier's recorded    *)
(* timestamps younger than windowMs plus windowMs, and the current time    *)
(* when there is none; when the identifier is at its limit, the first      *)
(* isAllowed call for it at the answered time is accepted.                 *)

C13_ResetTime ==
    /\ rlQuery.op = "getResetTime" =>
          LET reqs == RequestsOf(rlQuery.before, rlQuery.identifier)
              young == Young(rlQuery.before, rlQuery.identifier, rlQuery.time)
          IN  /\ young = {} => rlQuery.result = rlQuery.time
              /\ young # {} =>
                    /\ \E k \in young : rlQuery.result = reqs[k] + ProcessingWindowMs
                    /\ \A k \in young : rlQuery.result <= reqs[k] + ProcessingWindowMs
              /\ \A i \in DOMAIN rlCalls :
                    (/\ Cardinality(young) = ProcessingMaxRequests
                     /\ i > rlQuery.at
                     /\ rlCalls[i].identifier = rlQuery.identifier
                     /\ rlCalls[i].time = rlQuery.result
                     /\ \A j \in CallsAfterQuery(i) : rlCalls[j].time < rlQuery.result)
                        => rlCalls[i].allowed
    /\ \A identifier \in Identifiers :
          Cardinality(Young(processingRequests, identifier, now)) = ProcessingMaxRequests
             => IsAllowed(processingRequests, identifier,
                          GetResetTime(processingRequests, identifier, now,
                                       ProcessingWindowMs),
                          ProcessingWindowMs, ProcessingMaxRequests).allowed

\* at its limit with requests at two different times, asked, rejected before
\* the answered time and accepted at it
C13_Witness ==
    /\ rlQuery.op = "getResetTime"
    /\ Cardinality(Young(rlQuery.before, rlQuery.identifier, rlQuery.time))
          = ProcessingMaxRequests
    /\ RequestsOf(rlQuery.before, rlQuery.identifier)[1]
          < RequestsOf(rlQuery.before, rlQuery.identifier)[ProcessingMaxRequests]
    /\ rlQuery.time < rlQuery.result
    /\ Len(rlCalls) = rlQuery.at + 2
    /\ rlCalls[rlQuery.at + 1].identifier = rlQuery.identifier
    /\ rlCalls[rlQuery.at + 1].time < rlQuery.result
    /\ ~rlCalls[rlQuery.at + 1].allowed
    /\ rlCalls[rlQuery.at + 2].identifier = rlQuery.identifier
    /\ rlCalls[rlQuery.at + 2].time = rlQuery.result
    /\ rlCalls[rlQuery.at + 2].allowed

---------------------------------------------------------------------------

Min(a, b) == IF a <= b THEN a ELSE b

(* C14.  After any number of log calls the audit log holds at most 1000    *)
(* entries, and it is the last min(n, 1000) of the n entries appended, in  *)
(* append order: over the cap the oldest are dropped.                      *)

C14_LogCap ==
    /\ Len(logs) <= MaxLogs
    /\ Len(logs) = Min(Len(appended), MaxLogs)
    /\ \A i \in DOMAIN logs : logs[i] = appended[Len(appended) - Len(logs) + i]

C14_Witness ==
    /\ Len(appended) = MaxLogs + 2
    /\ Len(logs) = MaxLogs
    /\ logs[1].details = 3
    /\ logs[MaxLogs].details = MaxLogs + 2
    /\ logs[MaxLogs].level = "error"
    /\ logs[MaxLogs - 1].level = "info"

---------------------------------------------------------------------------

Present(x) == x # Undefined

(* C15.  As stated: getLogs returns exactly the retained entries that      *)
(* satisfy every predicate present in the filter (level equal, userId      *)
(* equal, timestamp at or after since), in insertion order, and all        *)
(* retained entries when there is no filter.                               *)

C15_AsStated ==
    logQuery.op = "getLogs" =>
        logQuery.result =
            IF logQuery.filter = UndefinedObject THEN logQuery.retained
            ELSE SelectSeq(logQuery.retained, LAMBDA entry :
                    /\ Present(logQuery.filter.level) =>
                          entry.level = logQuery.filter.level
                    /\ Present(logQuery.filter.userId) =>
                          entry.userId = logQuery.filter.userId
                    /\ logQuery.filter.since # UndefinedObject =>
                          entry.timestamp >= logQuery.filter.since.time)

NonEmpty(x) == x \notin {Undefined, ""}

(* C15, amended.  getLogs returns exactly the retained entries that        *)
(* satisfy every predicate of the filter that is present and, for level    *)
(* and userId, is not the empty string, in insertion order; with no        *)
(* filter it returns all retained entries.                                 *)

C15_GetLogs ==
    logQuery.op = "getLogs" =>
        logQuery.result =
            IF logQuery.filter = UndefinedObject THEN logQuery.retained
            ELSE SelectSeq(logQuery.retained, LAMBDA entry :
                    /\ NonEmpty(logQuery.filter.level) =>
                          entry.level = logQuery.filter.level
                    /\ NonEmpty(logQuery.filter.userId) =>
                          entry.userId = logQuery.filter.userId
                    /\ logQuery.filter.since # UndefinedObject =>
                          entry.timestamp >= logQuery.filter.since.time)

\* all three predicates given; an entry logged exactly at since is returned,
\* an earlier one with the same level and userId is left out
C15_Witness ==
    /\ logQuery.op = "getLogs"
    /\ logQuery.filter # UndefinedObject
    /\ logQuery.filter.level = "error"
    /\ logQuery.filter.userId = "u1"
    /\ logQuery.filter.since = DateOf(LogTickMs)
    /\ Len(logQuery.result) = 1
    /\ logQuery.result[1].timestamp = LogTickMs
    /\ Len(logQuery.retained) = 3
    /\ \E i \in DOMAIN logQuery.retained :
          /\ logQuery.retained[i].level = "error"
          /\ logQuery.retained[i].userId = "u1"
          /\ logQuery.retained[i].timestamp < LogTickMs

---------------------------------------------------------------------------

AllFailed(r) == \A k \in DOMAIN r.invoked : r.invoked[k].settled.threw

(* C16.  withRetry whose operation fails on every attempt invokes it       *)
(* exactly maxRetries + 1 times and then ends by throwing the error of the *)
(* last attempt itself: it never invokes more often, and it has ended once *)
(* the attempt number maxRetries has failed.                               *)

C16_RetryExhausted ==
    retry # NoCall =>
        /\ Len(retry.invoked) <= retry.maxRetries + 1
        /\ (AllFailed(retry) /\ Len(retry.invoked) = retry.maxRetries + 1)
              => retry.pc = "done"
        /\ (AllFailed(retry) /\ retry.pc = "done") =>
              /\ Len(retry.invoked) = retry.maxRetries + 1
              /\ retry.outcome = retry.invoked[Len(retry.invoked)].settled

\* the last error differs from the earlier ones
C16_Witness ==
    /\ retry # NoCall
    /\ retry.pc = "done"
    /\ retry.maxRetries = 2
    /\ Len(retry.invoked) = 3
    /\ retry.invoked[1].settled = Threw("first error")
    /\ retry.invoked[2].settled = Threw("first error")
    /\ retry.invoked[3].settled = Threw("other error")
    /\ retry.outcome = Threw("other error")

---------------------------------------------------------------------------

RECURSIVE SumTo(_, _)
SumTo(s, n) == IF n = 0 THEN 0 ELSE s[n] + SumTo(s, n - 1)

Failures(r) == {k \in DOMAIN r.invoked : r.invoked[k].settled.threw}

(* C17.  After the failure of attempt a < maxRetries, withRetry waits      *)
(* delay * 2^a and then invokes the operation again: invocation number k   *)
(* happens when the waits for the attempts before it have passed.  There   *)
(* is no wait after the failure of attempt maxRetries, and an attempt that *)
(* succeeds ends the call with its value, with no further wait or          *)
(* invocation.                                                             *)

C17_Backoff ==
    retry # NoCall =>
        /\ \A a \in DOMAIN retry.waits :
              retry.waits[a] = retry.delay * 2^(a - 1)
        /\ \A k \in DOMAIN retry.invoked :
              /\ retry.invoked[k].at = retry.started + SumTo(retry.waits, k - 1)
              /\ k < Len(retry.invoked) => retry.invoked[k].settled.threw
        /\ Len(retry.waits) =
              Cardinality(Failures(retry) \cap 1..retry.maxRetries)
        /\ retry.pc = "wait" => Len(retry.waits) = Len(retry.invoked)
        /\ (retry.pc = "done" /\ ~AllFailed(retry)) =>
              /\ retry.outcome = retry.invoked[Len(retry.invoked)].settled
              /\ ~retry.outcome.threw
              /\ Len(retry.waits) = Len(retry.invoked) - 1
        /\ (retry.pc = "done" /\ AllFailed(retry)) =>
              Len(retry.waits) = retry.maxRetries

\* two failures, then success before the retries are used up
C17_Witness ==
    /\ retry # NoCall
    /\ retry.pc = "done"
    /\ retry.maxRetries = 3
    /\ retry.delay = 1000
    /\ retry.waits = <<1000, 2000>>
    /\ Len(retry.invoked) = 3
    /\ retry.invoked[3].at = retry.started + 3000
    /\ retry.outcome = Returned("value")

---------------------------------------------------------------------------

\* the name the mutation is exported under
FunctionName == "secureCartoonifyImage"

\* the invocation's handler threw: the middleware let it through and it failed
HandlerThrew(c) ==
    /\ Authenticated(c)
    /\ Admitted(c)
    /\ c.outcome.threw

LastNewLog(c) == NewLogs(c)[Len(NewLogs(c))]

(* C18.  As stated: every error thrown inside the handler is caught by     *)
(* withSecurity, leaves as the invocation's last audit entry an error      *)
(* entry function_execution_error holding the function's name, the         *)
(* caller's identity, the error's message and the types of the arguments,  *)
(* and reaches the caller as the same error.                               *)

C18_HandlerErrorAudited ==
    \A i \in DOMAIN calls :
        HandlerThrew(calls[i]) =>
            /\ NewLogs(calls[i]) # << >>
            /\ LastNewLog(calls[i]).level = "error"
            /\ LastNewLog(calls[i]).event = "function_execution_error"
            /\ LastNewLog(calls[i]).details.function = FunctionName
            /\ LastNewLog(calls[i]).details.userId = calls[i].caller
            /\ LastNewLog(calls[i]).details.args = <<"object">>
            /\ LastNewLog(calls[i]).details.error = calls[i].outcome.error
            /\ calls[i].outcome.error \in
                  {InvalidStyle, RecordNotFound, Unauthorized, SchedulingFailed}

---------------------------------------------------------------------------

\* the message of a network, 5xx or 429/rate-limit failure: one the
\* categorizer files under NETWORK, or one with a 5xx or 429 status or the
\* words "rate limit"
DenotesTransientFailure(error) ==
    \/ CategorizeError(error) = "NETWORK"
    \/ \E i \in DOMAIN error.message :
          \/ error.message[i] \in {"500", "502", "503", "504", "429"}
          \/ /\ i < Len(error.message)
             /\ LowerWord(error.message[i]) = "rate"
             /\ LowerWord(error.message[i + 1]) = "limit"

(* C19.  As stated: handleError marks every Error whose message denotes a  *)
(* network, 5xx or 429/rate-limit failure retryable, marks every Error it  *)
(* categorizes as VALIDATION, AUTHENTICATION or AUTHORIZATION not          *)
(* retryable, and gives a PaperbagError its own type and its own retryable *)
(* flag.                                                                   *)

C19_Retryable ==
    handled.op = "handleError" =>
        /\ handled.error.kind = "Error" =>
              /\ DenotesTransientFailure(handled.error) => handled.result.retryable
              /\ handled.result.type \in {"VALIDATION", "AUTHENTICATION", "AUTHORIZATION"}
                    => ~handled.result.retryable
        /\ handled.error.kind = "PaperbagError" =>
              /\ handled.result.type = handled.error.type
              /\ handled.result.retryable = handled.error.retryable

---------------------------------------------------------------------------
(* C20.  As stated: in every state reached by secureCartoonifyImage        *)
(* invocations interleaved with the completion of generation jobs, a       *)
(* record with a derived URL has status completed.                         *)

C20_UrlOnlyWhenCompleted ==
    \A k \in DOMAIN images :
        HasDerivedUrl(images[k]) => images[k].status = "completed"

---------------------------------------------------------------------------
(* C21, C27: overlapping invocations of secureCartoonifyImage.             *)

\* invocation p has answered {success: true, status: "processing"}
ToldProcessing(p) ==
    /\ invocations[p].pc = "done"
    /\ ~invocations[p].outcome.threw
    /\ invocations[p].outcome.value.status = "processing"

\* invocation p read its record past the status gate (lines 209-216)
PassedGate(p) == invocations[p].image # NullObject

\* the jobs scheduled for a record
JobsFor(image) ==
    {j \in DOMAIN jobs : /\ jobs[j].imageUrl = image.originalImageUrl
                         /\ jobs[j].userId = image.userId}

(* C21.  The write to processing is no compare-and-swap: every invocation  *)
(* that read its record past the status gate and whose runAfter answered   *)
(* has scheduled a job of its own, whatever the record's status had become *)
(* in between, so the jobs scheduled are as many as these invocations; two *)
(* invocations for one storage reference that both read status pending     *)
(* both write processing and both schedule a job (C21_Race).               *)
C21_NoCompareAndSwap ==
    /\ Len(jobs) = Cardinality({p \in DOMAIN invocations :
                                  PassedGate(p) /\ ToldProcessing(p)})
    /\ \A p \in DOMAIN invocations :
           PassedGate(p) /\ ToldProcessing(p) =>
               /\ invocations[p].image.status # "processing"
               /\ \E j \in JobsFor(invocations[p].image) :
                      jobs[j] = ImageGenJob(invocations[p].image,
                                            invocations[p].args.style)

C21_Race ==
    \E p, q \in DOMAIN invocations :
        /\ p # q
        /\ invocations[p].args.storageId = invocations[q].args.storageId
        /\ PassedGate(p) /\ invocations[p].image.status = "pending"
        /\ PassedGate(q) /\ invocations[q].image.status = "pending"
        /\ invocations[p].image._id = invocations[q].image._id
        /\ ToldProcessing(p) /\ ToldProcessing(q)
        /\ Cardinality(JobsFor(invocations[p].image)) = 2
        /\ \E k \in DOMAIN images :
               /\ images[k]._id = invocations[p].image._id
               /\ images[k].status = "processing"

\* every invocation has answered
AllAnswered == \A p \in DOMAIN invocations : invocations[p].pc = "done"

(* C27.  As stated: once every invocation has answered, an invocation      *)
(* that answered {success: true, status: "processing"} has a generation    *)
(* job scheduled for its record; no caller was told processing while the   *)
(* record is left pending with no job.                                     *)
C27_SuccessBackedByJob ==
    AllAnswered =>
        \A p \in DOMAIN invocations :
            ToldProcessing(p) =>
                \A k \in DOMAIN images :
                    images[k].originalStorageId = invocations[p].args.storageId
                        => JobsFor(images[k]) # {}

---------------------------------------------------------------------------
\* how many timestamps younger than the window the processing limiter holds
\* at time t, under whatever identifier
Counted(requests, t) ==
    Cardinality({e \in Identifiers \X (1..(MaxCalls + 1)) :
                    e[2] \in Young(requests, e[1], t)})

\* the invocation was recorded once: one more young timestamp, taken now
CountedOnce(c) ==
    /\ Counted(c.post.requests, c.pre.now) = Counted(c.pre.requests, c.pre.now) + 1
    /\ \E identifier \in DOMAIN c.post.requests :
           /\ c.post.requests[identifier] # << >>
           /\ c.post.requests[identifier][Len(c.post.requests[identifier])] = c.pre.now
           /\ \A other \in DOMAIN c.post.requests :
                  other # identifier =>
                      c.post.requests[other] = RequestsOf(c.pre.requests, other)

(* C26.  Every invocation that passes authentication goes through the     *)
(* processing rate limiter once: when admitted it is recorded exactly      *)
(* once, whatever its outcome (short-circuit, success, or an error of the  *)
(* handler), and it is rejected with RateLimited exactly when 3            *)
(* invocations are already recorded within the window, also when no job    *)
(* was ever scheduled; a rejected invocation and one that fails            *)
(* authentication record nothing.                                          *)
C26_CountedOnce ==
    \A i \in DOMAIN calls :
        /\ (Authenticated(calls[i]) /\ Admitted(calls[i])) => CountedOnce(calls[i])
        /\ (~Authenticated(calls[i]) \/ ~Admitted(calls[i]))
              => calls[i].post.requests = calls[i].pre.requests
        /\ Authenticated(calls[i])
              => (Failed(calls[i], RateLimited)
                    <=> Counted(calls[i].pre.requests, calls[i].pre.now)
                            >= ProcessingMaxRequests)

\* three invocations were counted though none scheduled a job (the last of
\* them failed in the handler), and the next one is rejected
C26_Witness ==
    /\ Len(calls) = 2
    /\ Authenticated(calls[1]) /\ calls[1].outcome.threw /\ Admitted(calls[1])
    /\ Counted(calls[1].post.requests, calls[1].pre.now) = ProcessingMaxRequests
    /\ Authenticated(calls[2]) /\ Failed(calls[2], RateLimited)
    /\ calls[2].pre.jobs = << >>

---------------------------------------------------------------------------
\* the first i upload invocations are full uploads of one caller inside one
\* window: secureGenerateUploadUrl and secureSaveUploadedImage in turn
FullUploads(i) ==
    /\ i <= 2 * UploadMaxRequests
    /\ \A j \in 1..i :
          /\ uploads[j].caller = uploads[1].caller
          /\ uploads[j].caller # Null
          /\ uploads[j].op = IF j % 2 = 1 THEN "secureGenerateUploadUrl"
                             ELSE "secureSaveUploadedImage"
          /\ uploads[j].op = "secureSaveUploadedImage"
                => uploads[j].userId = uploads[j].caller
          /\ uploads[j].time - uploads[1].time < UploadWindowMs

(* C25.  As stated: a caller with no earlier requests completes 5 full     *)
(* uploads inside one 60-second window, each one secureGenerateUploadUrl   *)
(* invocation followed by one secureSaveUploadedImage invocation, and none *)
(* of these invocations is rejected as rate limited.                       *)
C25_FiveUploadsPerMinute ==
    \A i \in DOMAIN uploads :
        FullUploads(i) => uploads[i].outcome # Threw(RateLimited)

(* C28.  As stated: after any sequence of secureSaveUploadedImage          *)
(* invocations, no two image records share an originalStorageId.           *)
C28_OneRecordPerReference ==
    \A k, l \in DOMAIN images :
        images[k].originalStorageId = images[l].originalStorageId => k = l

---------------------------------------------------------------------------
\* the audit entries of the caller's invocations that a limiter accepted
\* (the middleware writes one such entry per accepted invocation), no older
\* than the window at time t
AcceptedFor(subject, events, t, windowMs) ==
    {k \in DOMAIN logs :
        /\ logs[k].event \in events
        /\ logs[k].details.userId = subject
        /\ t - logs[k].timestamp < windowMs}

\* the last getRateLimitStatus answered, and no secureCartoonifyImage since
StatusAnswered ==
    /\ statusQuery.op = "getRateLimitStatus"
    /\ ~statusQuery.outcome.threw
    /\ statusQuery.after = nCalls

\* the caller of the status query was rejected by the processing limiter just
\* before it
JustRejected ==
    /\ calls # << >>
    /\ calls[Len(calls)].caller = statusQuery.caller
    /\ Failed(calls[Len(calls)], RateLimited)
    /\ calls[Len(calls)].pre.now = statusQuery.time

(* C23.  As stated: getRateLimitStatus reports, for each limiter, maxRequests *)
(* minus the number of the caller's own invocations that limiter accepted  *)
(* within the window; right after the caller was rejected with RateLimited *)
(* by the processing limiter, processing.remaining is 0 and                *)
(* processing.resetTime lies in the future.                                *)
C23_OwnQuota ==
    StatusAnswered =>
        LET subject == statusQuery.caller
            t == statusQuery.time
            reported == statusQuery.outcome.value
        IN  /\ reported.processing.remaining = ProcessingMaxRequests -
                  Cardinality(AcceptedFor(subject, {"image_processing_request"}, t,
                                          ProcessingWindowMs))
            /\ reported.upload.remaining = UploadMaxRequests -
                  Cardinality(AcceptedFor(subject, {"upload_url_request", "image_save"},
                                          t, UploadWindowMs))
            /\ reported.general.remaining = GeneralMaxRequests -
                  Cardinality(AcceptedFor(subject, {"user_images_query"}, t,
                                          GeneralWindowMs))
            /\ JustRejected =>
                  /\ reported.processing.remaining = 0
                  /\ reported.processing.resetTime > t

---------------------------------------------------------------------------
\* reads i-1 and i are consecutive: the same arguments, both answered, and the
\* log not written in between
ConsecutiveIn(rs, i) ==
    /\ i > 1
    /\ rs[i].args = rs[i - 1].args
    /\ ~rs[i].outcome.threw /\ ~rs[i - 1].outcome.threw
    /\ rs[i].before = rs[i - 1].after

Consecutive(i) == ConsecutiveIn(reads, i)

(* C24.  As stated: a read through getSecurityLogs leaves the audit log as *)
(* it was, and two consecutive reads with the same filter return the same  *)
(* entries.                                                                *)
C24_AsStated ==
    \A i \in DOMAIN reads :
        /\ reads[i].after = reads[i].before
        /\ Consecutive(i) => reads[i].outcome.value = reads[i - 1].outcome.value

\* the entry passes the filter
Passes(entry, filter) == GetLogs(<<entry>>, filter) # << >>

\* a step of getLogs leaves the log as it was; a step of getSecurityLogs
\* appends its access entry when the caller is authenticated, and nothing
\* otherwise
ReadStep ==
    /\ logQuery' # logQuery => logs' = logs
    /\ reads' # reads =>
          LET r == reads'[Len(reads')]
              access == AccessEntry(r.caller, r.args, r.time)
          IN  /\ r.before = logs /\ r.after = logs'
              /\ r.outcome.threw => logs' = logs
              /\ ~r.outcome.threw =>
                    /\ Len(logs) < MaxLogs => logs' = Append(logs, access)
                    /\ ConsecutiveIn(reads', Len(reads')) =>
                          r.outcome.value =
                              reads[Len(reads)].outcome.value \o
                                  (IF Passes(access, FilterOf(r.args))
                                   THEN <<access>> ELSE << >>)

(* C24.  Reading the audit log through getLogs never appends, removes or   *)
(* changes an entry.  A read through getSecurityLogs by an authenticated   *)
(* caller appends one entry, security_logs_accessed, and changes no other  *)
(* entry; an unauthenticated one changes nothing.  Two consecutive         *)
(* getSecurityLogs reads with the same filter return the same entries,     *)
(* followed in the second by its own access entry when that passes the     *)
(* filter.                                                                 *)
C24_ReadsLogTheAccess == [][ReadStep]_vars

\* two consecutive reads with the same filter, the second returning one entry
\* more than the first
C24_Witness ==
    \E i \in DOMAIN reads :
        /\ Consecutive(i)
        /\ Len(reads[i].outcome.value) = Len(reads[i - 1].outcome.value) + 1
        /\ Len(reads[i].after) = Len(reads[i - 1].before) + 2

---------------------------------------------------------------------------
\* the events the middleware and secureCartoonifyImage log on behalf of the
\* caller: request received, processing started, invalid style, unauthorized
\* access, scheduling failure
CallerEvents ==
    {"image_processing_request", "image_processing_started",
     "invalid_style_parameter", "unauthorized_image_access",
     "image_processing_scheduling_failed"}

(* C29.  As stated: a getSecurityLogs read filtered by userId = U alone    *)
(* returns every retained audit entry that the middleware or               *)
(* secureCartoonifyImage wrote on behalf of the authenticated caller U.    *)
C29_RetrievableByIdentity ==
    \A i \in DOMAIN reads :
        (/\ ~reads[i].outcome.threw
         /\ reads[i].args.userId \in Users
         /\ reads[i].args.level = Undefined
         /\ reads[i].args.since = << >>)
        => \A k \in DOMAIN reads[i].before :
               (/\ reads[i].before[k].event \in CallerEvents
                /\ reads[i].before[k].details.userId = reads[i].args.userId)
               => \E j \in DOMAIN reads[i].outcome.value :
                      reads[i].outcome.value[j] = reads[i].before[k]

---------------------------------------------------------------------------
\* what an answer of secureGetUserImages to the owner has to be like, when at
\* most n images may be returned
OwnersPage(c, n) ==
    LET page == c.outcome.value.images
        cursor == c.args.cursor
    IN  /\ Len(page) <= n
        /\ \A k \in DOMAIN page : page[k].userId = c.caller
        /\ \A k \in DOMAIN page : \E l \in DOMAIN images : images[l] = page[k]
        /\ \A k \in 1..(Len(page) - 1) : page[k].createdAt >= page[k + 1].createdAt
        /\ (cursor # UndefinedObject /\ cursor # EmptyString) =>
              \A k \in DOMAIN page : page[k].createdAt < cursor.value
        /\ c.outcome.value.hasMore =>
              /\ page # << >>
              /\ c.outcome.value.nextCursor = Numeral(page[Len(page)].createdAt)

(* C22.  As stated: secureGetUserImages returns to a caller whose identity *)
(* equals the requested owner at most min(limit, 100) images (at most 100  *)
(* when no limit is given), all owned by the caller, in descending         *)
(* createdAt order, with createdAt below the cursor when one is given, and *)
(* with nextCursor the createdAt of the last image when hasMore is true; a *)
(* caller whose identity differs from the requested owner gets             *)
(* Unauthorized.                                                           *)
C22_AsStated ==
    \A i \in DOMAIN listed :
        LET c == listed[i]
            limit == c.args.limit
        IN  /\ (c.caller \in Users /\ c.caller = c.args.userId) =>
                  /\ ~c.outcome.threw
                  /\ OwnersPage(c, IF limit # << >> /\ limit[1] <= LimitCap
                                   THEN limit[1] ELSE LimitCap)
            /\ (c.caller \in Users /\ c.caller # c.args.userId) =>
                  c.outcome = Threw(UnauthorizedAccess)

(* C22.  An invocation of secureGetUserImages that the general rate        *)
(* limiter admits returns to a caller whose identity equals the requested  *)
(* owner at most min(limit, 100) images, an absent or zero limit counting  *)
(* as 20, all owned by the caller, in descending createdAt order, with     *)
(* createdAt below the cursor when one is given, and with nextCursor the   *)
(* createdAt of the last image when hasMore is true; an admitted caller    *)
(* whose identity differs from the requested owner gets Unauthorized.  An  *)
(* invocation the limiter rejects fails with RateLimited.                  *)
C22_ListImages ==
    \A i \in DOMAIN listed :
        LET c == listed[i]
        IN  /\ c.caller \in Users =>
                  \/ c.outcome = Threw(RateLimited)
                  \/ /\ c.caller = c.args.userId
                     /\ ~c.outcome.threw
                     /\ OwnersPage(c, EffectiveLimit(c.args.limit))
                     /\ EffectiveLimit(c.args.limit) <= LimitCap
                  \/ /\ c.caller # c.args.userId
                     /\ c.outcome = Threw(UnauthorizedAccess)
            /\ c.caller = Null => c.outcome = Threw(AuthenticationRequired)

\* the owner asks for more than the cap, below a cursor, and gets the cap's
\* worth of its images
C22_Witness ==
    \E i \in DOMAIN listed :
        /\ listed[i].caller = listed[i].args.userId
        /\ listed[i].args.limit = <<LimitCap + 50>>
        /\ listed[i].args.cursor = Numeral(LimitCap + 1)
        /\ ~listed[i].outcome.threw
        /\ Len(listed[i].outcome.value.images) = LimitCap
        /\ listed[i].outcome.value.hasMore
        /\ listed[i].outcome.value.nextCursor = Numeral(1)

---------------------------------------------------------------------------
\* how often the record appears in the pages loaded
TimesLoaded(image) ==
    Cardinality({e \in (DOMAIN paging.pages) \X (1..LimitCap) :
                    /\ e[2] \in DOMAIN paging.pages[e[1]]
                    /\ paging.pages[e[1]][e[2]]._id = image._id})

(* C30.  As stated: paging from the first page (no cursor) on with each    *)
(* page's nextCursor until hasMore is false returns every image of the     *)
(* owner exactly once, also when several images have the same createdAt.   *)
C30_PaginationComplete ==
    (paging # NoCall /\ paging.state = "done") =>
        \A k \in DOMAIN images :
            images[k].userId = paging.owner => TimesLoaded(images[k]) = 1

====
